---- MODULE Spec2Model ----
(***************************************************************************)
(* Model of scripts/preprocess.ts (the novel preprocessing pipeline):      *)
(* heading detection (parseChapterIndices), partitioning and chunk        *)
(* writing (processBook) and the incremental batch driver (main); of the  *)
(* download endpoint (functions/api/books/[bookId]/download.ts) and of    *)
(* the two batch loop scripts that run main again and again               *)
(* (unnamed/part_001).                                                     *)
(*                                                                         *)
(* Text is modelled at character level.  A line is a sequence of          *)
(* characters, each character a token naming one code point:               *)
(*   "di" 第   "yi" 一   "0".."9" the digits   "zhang" 章   "juan" 卷       *)
(*   "xu" 序   "hang" 行   "jia" 甲 (any other ideograph)   "sp" U+0020    *)
(*   "dou" ，  "colon" ：  "bang" ！  "lb" 【  "rb" 】  "-" hyphen          *)
(* Scores are kept in hundredths (2.4 is 240) so that they stay integers.  *)
(***************************************************************************)
EXTENDS Integers, Sequences, FiniteSets, TLC

\* ------------------------------------------------------------------------
\* Character classes (preprocess.ts 590-606)
\* ------------------------------------------------------------------------

\* \s and U+3000
WS == {"sp"}
\* EXTENDED_CHINESE_NUMERAL_CHARS
EXTENDED_CHINESE_NUMERAL_CHARS == {"yi"}
\* \d
DIGITS == {"0", "1", "2", "3", "4", "5", "6", "7", "8", "9"}
PRIMARY_CHAPTER_MARKERS == {"zhang", "jie"}
UPPER_MARKER_CANDIDATES == {"juan", "bu"}
ALL_MARKER_CANDIDATES == UPPER_MARKER_CANDIDATES \cup PRIMARY_CHAPTER_MARKERS
\* /[，。,。？！、；]/
SENTENCE_PUNCTUATION == {"dou", "bang"}
\* the optional [:：-] of a separator
SEPARATOR_CHARS == {"colon", "-"}
\* /[！!？?]+$/
TRAILING_MARKS == {"bang"}
\* HEADING_LEADING_DELIMITER_REGEX
HEADING_LEADING_DELIMITER == {"colon", "dou", "bang", "lb", "rb", "sp", "-"}
ALLOWED_SUFFIX_PREFIXES == {"xu", "juan", "zhang"}
\* the letters of the keyword Book
ASCII_LETTERS == {"B", "o", "k"}
\* /[A-Za-z0-9]/
ASCII_ALNUM == DIGITS \cup ASCII_LETTERS
\* \p{Unified_Ideograph}
CJK_LETTER == {"di", "yi", "zhang", "juan", "xu", "hang", "jia"}
\* [\p{P}\p{S}...] of HEADING_POST_MARKER_PATTERN
PUNCT_OR_SYMBOL == {"dou", "colon", "bang", "lb", "rb", "-"}
\* [\w一-鿿]
WORD_OR_CJK == ASCII_ALNUM \cup CJK_LETTER

HEADING_CONFIDENCE_THRESHOLD == 180

\* ------------------------------------------------------------------------
\* String helpers
\* ------------------------------------------------------------------------

Min(a, b) == IF a < b THEN a ELSE b

\* s.slice(from - 1, to - 1): characters from..to-1 (1-based, to exclusive)
Slice(s, from, to) == SubSeq(s, from, to - 1)

RECURSIVE SkipWs(_, _)
\* first position >= p of s that holds no whitespace (Len(s)+1 if none)
SkipWs(s, p) == IF p <= Len(s) /\ s[p] \in WS THEN SkipWs(s, p + 1) ELSE p


RECURSIVE SkipSet(_, _, _)
\* end (exclusive) of the longest run of characters of set cls starting at p
SkipSet(s, p, cls) ==
  IF p <= Len(s) /\ s[p] \in cls THEN SkipSet(s, p + 1, cls) ELSE p

RECURSIVE LastOutside(_, _, _, _)
LastOutsideOr(found, s, lo, hi, cls) ==
  IF found > 0 THEN found ELSE LastOutside(s, lo, hi, cls)

\* last position of s[lo..hi] that holds no character of cls (0 if none),
\* searched by halves, the upper half first
LastOutside(s, lo, hi, cls) ==
  IF lo > hi THEN 0
  ELSE IF lo = hi THEN (IF s[lo] \in cls THEN 0 ELSE lo)
  ELSE LastOutsideOr(LastOutside(s, (lo + hi) \div 2 + 1, hi, cls),
                     s, lo, (lo + hi) \div 2, cls)

\* start (exclusive) of the longest run of characters of cls that ends at p
SkipSetBack(s, p, cls) == LastOutside(s, 1, p, cls)

\* String.prototype.trim / trimStart
Trim(s) == Slice(s, SkipWs(s, 1), SkipSetBack(s, Len(s), WS) + 1)
TrimStart(s) == Slice(s, SkipWs(s, 1), Len(s) + 1)

\* number of characters of s that lie in cls
CountIn(s, cls) == Cardinality({k \in 1..Len(s) : s[k] \in cls})

\* s.indexOf(c), 1-based; 0 when absent
IndexOf(s, c) ==
  IF \E k \in 1..Len(s) : s[k] = c
  THEN CHOOSE k \in 1..Len(s) : s[k] = c /\ \A j \in 1..(k - 1) : s[j] /= c
  ELSE 0

\* ORDINAL_FRAGMENT_PATTERN at position p: the alternatives are runs of one
\* character class; returns the end (exclusive) of the longest run, p if
\* no alternative matches at p.
OrdinalEnd(s, p) ==
  IF p > Len(s) THEN p
  ELSE IF s[p] \in DIGITS THEN SkipSet(s, p, DIGITS)
  ELSE IF s[p] \in EXTENDED_CHINESE_NUMERAL_CHARS
       THEN SkipSet(s, p, EXTENDED_CHINESE_NUMERAL_CHARS)
  ELSE p

\* (?:【[^】]+】\s*)? at position p: position after the optional bracketed
\* annotation and the whitespace behind it; p when there is none.
BracketPrefixEnd(s, p) ==
  IF p <= Len(s) /\ s[p] = "lb"
  THEN LET close == SkipSet(s, p + 1, {c \in {s[k] : k \in 1..Len(s)} : c /= "rb"})
       IN IF close > p + 1 /\ close <= Len(s) THEN SkipWs(s, close + 1) ELSE p
  ELSE p

\* [:：-]?\s* at position q
SeparatorTail(s, q) ==
  IF q <= Len(s) /\ s[q] \in SEPARATOR_CHARS THEN SkipWs(s, q + 1) ELSE q

\* (?<sep>\s*[:：-]?\s*) at position p: end (exclusive) of the separator
SeparatorEnd(s, p) == SeparatorTail(s, SkipWs(s, p))

NoSpan == [ok |-> FALSE, b |-> 0, c |-> 0, d |-> 0]

\* the numeral s[b..c-1] is not empty and the character at d is a marker
SpanIfMarker(s, b, c, d, markers) ==
  IF c > b /\ d <= Len(s) /\ s[d] \in markers
  THEN [ok |-> TRUE, b |-> b, c |-> c, d |-> d] ELSE NoSpan

OrdinalThenWs(s, b, c, markers) == SpanIfMarker(s, b, c, SkipWs(s, c), markers)

\* ORDINAL\s*(markers) at position b: numeral s[b..c-1], marker at d
OrdinalMarkerAt(s, b, markers) == OrdinalThenWs(s, b, OrdinalEnd(s, b), markers)

\* 第\s*ORDINAL\s*(markers) at position a
DiOrdinalMarkerAt(s, a, markers) ==
  IF a <= Len(s) /\ s[a] = "di"
  THEN OrdinalMarkerAt(s, SkipWs(s, a + 1), markers) ELSE NoSpan

\* (?:第\s*)?ORDINAL\s*(markers) at position a
OptDiOrdinalMarkerAt(s, a, markers) ==
  IF a <= Len(s) /\ s[a] = "di"
  THEN OrdinalMarkerAt(s, SkipWs(s, a + 1), markers)
  ELSE OrdinalMarkerAt(s, a, markers)

\* ORDINAL at position b behind a marker at position a: marker\s*ORDINAL
MarkerThenOrdinal(s, a, b, c, markers) ==
  IF a <= Len(s) /\ s[a] \in markers /\ c > b
  THEN [ok |-> TRUE, b |-> b, c |-> c, d |-> a] ELSE NoSpan

MarkerWsOrdinal(s, a, b, markers) == MarkerThenOrdinal(s, a, b, OrdinalEnd(s, b), markers)

\* (markers)\s*ORDINAL at position a
MarkerOrdinalAt(s, a, markers) == MarkerWsOrdinal(s, a, SkipWs(s, a + 1), markers)

\* ------------------------------------------------------------------------
\* scanHeadingPatterns (preprocess.ts 787-869)
\* ------------------------------------------------------------------------

\* markerPattern applied to a trimmed line: the marker captured by
\* ^(?:【[^】]+】\s*)?(?:第\s*)?(?<num>ORDINAL)\s*(?<marker>ALL), "" if no match
MarkerOfSpan(line, span) == IF span.ok THEN line[span.d] ELSE ""

MarkerOf(line) ==
  MarkerOfSpan(line, OptDiOrdinalMarkerAt(line, BracketPrefixEnd(line, 1), ALL_MARKER_CANDIDATES))

\* markerPositions.get(marker): the 0-based indices of the lines (non-empty
\* after trim, at most 100 characters) whose captured marker is `marker`
MarkerPositions(lines, marker) ==
  {k - 1 : k \in {j \in 1..Len(lines) :
       LET line == Trim(lines[j])
       IN Len(line) > 0 /\ Len(line) <= 100 /\ MarkerOf(line) = marker}}

\* markerCounts.get(marker) ?? 0
MarkerCount(lines, marker) == Cardinality(MarkerPositions(lines, marker))

SetMin(S) == CHOOSE x \in S : \A y \in S : x <= y

\* lines 811-846: seeding and ambiguity resolution
SeededHierarchy(lines) ==
  LET upper0 == {m \in UPPER_MARKER_CANDIDATES : MarkerCount(lines, m) > 0}
      primary0 == {m \in PRIMARY_CHAPTER_MARKERS : MarkerCount(lines, m) > 0}
      ambiguous == upper0 \cap primary0
      isRareInEarly(m) == LET pos == MarkerPositions(lines, m)
                          IN pos /= {} /\ SetMin(pos) * 100 > Len(lines) * 15
      isFrequent(m) == MarkerCount(lines, m) > 10
                       /\ MarkerCount(lines, m) * 200 > Len(lines)
      toPrimary == {m \in ambiguous : isFrequent(m) /\ ~isRareInEarly(m)}
  IN [upperMarkers |-> upper0 \ toPrimary,
      primaryMarkers |-> primary0 \ (ambiguous \ toPrimary)]

\* lines 850-860: appearsBefore of one upper marker, summed over the primary
\* markers: for each primary marker, the upper positions followed by a
\* later position of that primary marker
FollowedBy(lines, upperMarker, pm) ==
  Cardinality({u \in MarkerPositions(lines, upperMarker) :
                 \E p \in MarkerPositions(lines, pm) : p > u})

RECURSIVE AppearsBefore(_, _, _)
AppearsBefore(lines, upperMarker, primaryMarkers) ==
  IF primaryMarkers = {} THEN 0
  ELSE LET pm == CHOOSE m \in primaryMarkers : TRUE
       IN FollowedBy(lines, upperMarker, pm)
          + AppearsBefore(lines, upperMarker, primaryMarkers \ {pm})

\* the order in which a Set built by lines 814-819 iterates
UPPER_MARKER_ORDER == <<"juan", "bu">>

\* the marker added to primaryMarkers and left in upperMarkers
CopyToPrimary(h, marker) ==
  [upperMarkers |-> h.upperMarkers, primaryMarkers |-> h.primaryMarkers \cup {marker}]

\* lines 863-864: upperMarkers.delete(upperMarker), primaryMarkers.add(upperMarker)
MoveToPrimary(h, marker) ==
  [upperMarkers |-> h.upperMarkers \ {marker},
   primaryMarkers |-> h.primaryMarkers \cup {marker}]

RECURSIVE Reclassify(_, _, _)
\* lines 848-866: the reclassification pass, upper markers in insertion order
Reclassify(lines, h, k) ==
  IF k > Len(UPPER_MARKER_ORDER) THEN h
  ELSE LET um == UPPER_MARKER_ORDER[k]
           upperCount == MarkerCount(lines, um)
           appearsBefore == AppearsBefore(lines, um, h.primaryMarkers)
       IN IF um \in h.upperMarkers /\ upperCount > 50
             /\ appearsBefore * 10 < upperCount * 3
          THEN Reclassify(lines, MoveToPrimary(h, um), k + 1)
          ELSE Reclassify(lines, h, k + 1)

scanHeadingPatterns(lines) == Reclassify(lines, SeededHierarchy(lines), 1)

\* ------------------------------------------------------------------------
\* parseChapterIndices: composite line splitting (preprocess.ts 875-930)
\* ------------------------------------------------------------------------

\* allMarkerPattern || ALL_HEADING_MARKERS (line 879)
SplitMarkers(h) ==
  IF h.upperMarkers \cup h.primaryMarkers = {} THEN ALL_MARKER_CANDIDATES
  ELSE h.upperMarkers \cup h.primaryMarkers

OrdinalMarkerEnd(span) == IF span.ok THEN span.d + 1 ELSE 0

\* HEADING_SPLIT_REGEX tried at position p of s: the end (exclusive) of the
\* match of (?:【[^】]+】\s*)?第\s*ORDINAL\s*(?:markers), 0 if it does not match
SplitMatchEnd(s, p, markers) ==
  OrdinalMarkerEnd(DiOrdinalMarkerAt(s, BracketPrefixEnd(s, p), markers))

RECURSIVE HeadingStarts(_, _, _)
HeadingStartsFrom(s, from, markers, matchEnd) ==
  IF matchEnd > 0 THEN <<from>> \o HeadingStarts(s, matchEnd, markers)
  ELSE HeadingStarts(s, from + 1, markers)

\* lines 885-890: the start offsets (1-based) of the successive matches of
\* the global regex, each search resuming at the end of the previous match
HeadingStarts(s, from, markers) ==
  IF from > Len(s) THEN <<>>
  ELSE HeadingStartsFrom(s, from, markers, SplitMatchEnd(s, from, markers))

\* a push that keeps empty segments
PushAlways(segments, x) == Append(segments, x)

\* segments.push(x) guarded by `if (x)`
PushIfNonEmpty(segments, x) == IF Len(x) > 0 THEN Append(segments, x) ELSE segments

RECURSIVE SplitLoop(_, _, _, _, _)
\* lines 898-908: the loop over headingStarts; lastIndex is 1-based
SplitLoop(line, starts, k, lastIndex, segments) ==
  IF k > Len(starts)
  THEN \* lines 909-913
       LET withTail == IF lastIndex <= Len(line)
                       THEN PushIfNonEmpty(segments, Trim(Slice(line, lastIndex, Len(line) + 1)))
                       ELSE segments
       IN IF Len(withTail) > 0 THEN withTail ELSE << <<>> >>
  ELSE LET start == starts[k]
           withPrefix == IF start > lastIndex
                         THEN PushIfNonEmpty(segments, Trim(Slice(line, lastIndex, start)))
                         ELSE segments
           end == IF k + 1 <= Len(starts) THEN starts[k + 1] ELSE Len(line) + 1
       IN SplitLoop(line, starts, k + 1, end,
                    PushIfNonEmpty(withPrefix, Trim(Slice(line, start, end))))

\* lines 883-914
splitCompositeLine(line, h) ==
  IF Len(line) = 0 THEN << line >>
  ELSE LET headingStarts == HeadingStarts(line, 1, SplitMarkers(h))
       IN IF Len(headingStarts) = 0 THEN << line >>
          ELSE SplitLoop(line, headingStarts, 1, 1, <<>>)

\* logical lines that are never flagged
NeverFlagged(segments) ==
  [j \in 1..Len(segments) |-> [text |-> segments[j], composite |-> FALSE]]

\* lines 919-928 for one physical line: its logical lines with their flag
Flagged(segments) ==
  [j \in 1..Len(segments) |-> [text |-> segments[j], composite |-> Len(segments) > 1]]

RECURSIVE ProcessedRange(_, _, _, _)
\* lines 916-930 for lines[lo..hi], computed by halves so that the depth of
\* the evaluation stays logarithmic in the number of lines
ProcessedRange(lines, lo, hi, h) ==
  IF lo > hi THEN <<>>
  ELSE IF lo = hi THEN Flagged(splitCompositeLine(lines[lo], h))
  ELSE ProcessedRange(lines, lo, (lo + hi) \div 2, h)
       \o ProcessedRange(lines, (lo + hi) \div 2 + 1, hi, h)

\* lines 916-930: processedLines paired with compositeFlags, one record per
\* logical line
ProcessedFrom(lines, k, h) == ProcessedRange(lines, k, Len(lines), h)

\* ------------------------------------------------------------------------
\* parseChapterIndices: candidate matching (preprocess.ts 934-966, 1123-1160)
\* ------------------------------------------------------------------------

NoMatch == [matched |-> FALSE]

GroupsWithSeparator(line, span, e, sepEnd) ==
  [matched |-> TRUE,
   num |-> Slice(line, span.b, span.c),
   marker |-> line[span.d],
   separator |-> Slice(line, e, sepEnd),
   rest |-> Slice(line, sepEnd, Len(line) + 1)]

\* the groups of a chapter pattern whose numeral and marker are `span` and
\* whose (?<sep>...)(?<rest>.*)$ starts at position e
ChapterGroups(line, span, e) ==
  IF span.ok THEN GroupsWithSeparator(line, span, e, SeparatorEnd(line, e)) ELSE NoMatch

AfterMarker(line, span) == ChapterGroups(line, span, span.d + 1)
AfterNumeral(line, span) == ChapterGroups(line, span, span.c)

\* chapterPatterns[0] (line 938): prefix? 第 \s* num \s* kind sep rest
ChapterPattern1(line, primary) ==
  AfterMarker(line, DiOrdinalMarkerAt(line, BracketPrefixEnd(line, 1), primary))

\* chapterPatterns[1] (line 945): prefix? num \s* kind sep rest
ChapterPattern2(line, primary) ==
  AfterMarker(line, OrdinalMarkerAt(line, BracketPrefixEnd(line, 1), primary))

\* chapterPatterns[2] (line 952): prefix? kind \s* num sep rest
ChapterPattern3(line, primary) ==
  AfterNumeral(line, MarkerOrdinalAt(line, BracketPrefixEnd(line, 1), primary))

BaseConfidence(n) == CASE n = 1 -> 240 [] n = 2 -> 225 [] n = 3 -> 210 [] OTHER -> 190

\* what one round of the loop of matchChapterHeading decides
Continue == [decided |-> FALSE, found |-> FALSE]
NoCandidate == [decided |-> TRUE, found |-> FALSE]

\* ARABIC_OR_ROMAN_REGEX.test(num) (line 1135)
HasDigitOrRoman(num) == \E k \in 1..Len(num) : num[k] \in DIGITS

\* line 1136
IsChineseNumeralOnly(num) ==
  Len(num) > 0 /\ \A k \in 1..Len(num) : num[k] \in EXTENDED_CHINESE_NUMERAL_CHARS

\* /第/.test(matchedPrefix) (line 1140)
ContainsDi(matchedPrefix) == \E k \in 1..Len(matchedPrefix) : matchedPrefix[k] = "di"

\* lines 1137-1140: the matched segment is the whole line
HasExplicitOrdinalPrefix(line, marker) ==
  ContainsDi(Slice(line, 1, IndexOf(line, marker)))

\* lines 1142-1157
ApplyRules(fromComposite, n, result, trimmedRest, hasExplicitOrdinalPrefix, hasDigitOrRoman) ==
  IF ~hasExplicitOrdinalPrefix /\ ~hasDigitOrRoman /\ IsChineseNumeralOnly(result.num)
  THEN Continue
  ELSE IF Len(result.separator) = 0 /\ Len(trimmedRest) > 0
          /\ trimmedRest[1] \in WORD_OR_CJK
          /\ ~hasExplicitOrdinalPrefix /\ ~hasDigitOrRoman
  THEN Continue
  ELSE IF fromComposite /\ Len(trimmedRest) = 0
  THEN NoCandidate
  ELSE [decided |-> TRUE, found |-> TRUE, rest |-> result.rest,
        separator |-> result.separator, baseConfidence |-> BaseConfidence(n),
        marker |-> result.marker]

\* one round of the loop at line 1127, for the n-th pattern's result
PatternDecision(line, fromComposite, n, result) ==
  IF ~result.matched THEN Continue
  ELSE ApplyRules(fromComposite, n, result, Trim(result.rest),
                  HasExplicitOrdinalPrefix(line, result.marker),
                  HasDigitOrRoman(result.num))

\* the first round that returns
FirstDecision(d1, d2, d3) ==
  IF d1.decided THEN d1 ELSE IF d2.decided THEN d2 ELSE IF d3.decided THEN d3
  ELSE NoCandidate

\* matchChapterHeading (lines 1123-1160) over chapterPatterns (lines 934-965),
\* which is empty when there is no primary marker.  The fourth pattern
\* (Latin keywords, 1.9) needs Latin letters, which the alphabet of this
\* model does not hold, so it never matches a line of the model.
matchChapterHeading(line, fromComposite, h) ==
  IF h.primaryMarkers = {} THEN NoCandidate
  ELSE FirstDecision(
         PatternDecision(line, fromComposite, 1, ChapterPattern1(line, h.primaryMarkers)),
         PatternDecision(line, fromComposite, 2, ChapterPattern2(line, h.primaryMarkers)),
         PatternDecision(line, fromComposite, 3, ChapterPattern3(line, h.primaryMarkers)))

\* specialTitles (line 966); of its vocabulary the alphabet holds 序章
specialTitles(line) == Len(line) >= 2 /\ line[1] = "xu" /\ line[2] = "zhang"

\* ------------------------------------------------------------------------
\* parseChapterIndices: confidence (preprocess.ts 970-1046), in hundredths
\* ------------------------------------------------------------------------

\* x.replace(/[！!？?]+$/, "")
StripTrailingMarks(x) == Slice(x, 1, SkipSetBack(x, Len(x), TRAILING_MARKS) + 1)

\* a length bonus whose first limit is exclusive
LengthScoreExclusive(length) ==
  IF length < 18 THEN 120
  ELSE IF length <= 34 THEN 80
  ELSE IF length <= 48 THEN 20
  ELSE -150

\* lines 980-983
LengthScore(length) ==
  IF length <= 18 THEN 120
  ELSE IF length <= 34 THEN 80
  ELSE IF length <= 48 THEN 20
  ELSE -150

\* a punctuation penalty that does not grow with the count
PunctuationPenaltyOnce(trimmedLine, punctuationCount) ==
  IF punctuationCount = 0 THEN 80
  ELSE IF punctuationCount = 1 /\ IndexOf(trimmedLine, "colon") > 0 THEN 10
  ELSE -110

PunctuationScoreOf(trimmedLine, punctuationCount) ==
  IF punctuationCount = 0 THEN 80
  ELSE IF punctuationCount = 1 /\ IndexOf(trimmedLine, "colon") > 0 THEN 10
  ELSE -(punctuationCount * 110)

\* lines 986-995
PunctuationScore(trimmedLine) ==
  PunctuationScoreOf(trimmedLine,
                     CountIn(StripTrailingMarks(trimmedLine), SENTENCE_PUNCTUATION))

GapScoreOf(combinedRest, gapEnd, leadEnd) ==
  IF gapEnd - 1 > 0
  THEN (IF gapEnd - 1 >= 2 THEN 100 ELSE 80) + (IF leadEnd > gapEnd THEN 20 ELSE 0)
  ELSE IF combinedRest[1] \in WS THEN 60
  ELSE 0

GapScoreFrom(combinedRest, gapEnd) ==
  GapScoreOf(combinedRest, gapEnd, SkipSet(combinedRest, gapEnd, PUNCT_OR_SYMBOL))

\* lines 1000-1007: HEADING_POST_MARKER_PATTERN on the combined rest; the gap
\* is combinedRest[1..gapEnd-1], the lead combinedRest[gapEnd..leadEnd-1]
GapScore(combinedRest) == GapScoreFrom(combinedRest, SkipWs(combinedRest, 1))

LeadingCharScoreOf(rest) ==
  IF Len(rest) = 0 THEN 0
  ELSE IF rest[1] \in HEADING_LEADING_DELIMITER THEN 25
  ELSE IF rest[1] \in ALLOWED_SUFFIX_PREFIXES THEN 45
  ELSE IF rest[1] \in ASCII_ALNUM THEN 25
  ELSE IF rest[1] \in CJK_LETTER THEN 25
  ELSE -60

\* lines 1009-1022
LeadingCharScore(combinedRest) == LeadingCharScoreOf(TrimStart(combinedRest))

RestScoreOf(restLength, innerPunctuationCount) ==
  (IF restLength > 60 THEN -140
   ELSE IF restLength > 44 THEN -90
   ELSE IF restLength > 32 THEN -40
   ELSE 0)
  + (IF innerPunctuationCount >= 2 /\ restLength > 24
     THEN -(innerPunctuationCount * 45) ELSE 0)

RestScoreTrimmed(trimmedRest) ==
  RestScoreOf(Len(trimmedRest), CountIn(StripTrailingMarks(trimmedRest), SENTENCE_PUNCTUATION))

\* lines 1024-1040
RestScore(combinedRest) == RestScoreTrimmed(Trim(combinedRest))

ConfidenceOf(trimmedLine, baseConfidence, combinedRest) ==
  baseConfidence + LengthScore(Len(trimmedLine)) + PunctuationScore(trimmedLine)
  + (IF Len(combinedRest) > 0
     THEN GapScore(combinedRest) + LeadingCharScore(combinedRest) + RestScore(combinedRest)
     ELSE 0)

\* computeHeadingConfidence; an absent markerRest or separator is <<>>
computeHeadingConfidence(sourceLine, baseConfidence, markerRest, separator) ==
  ConfidenceOf(Trim(sourceLine), baseConfidence, separator \o markerRest)

isHeadingAccepted(confidence) == confidence >= HEADING_CONFIDENCE_THRESHOLD

\* ------------------------------------------------------------------------
\* parseChapterIndices: upper headings (preprocess.ts 1048-1121, 1162-1169)
\* ------------------------------------------------------------------------

NoHeading == [found |-> FALSE]

\* `${baseTitle} ${suffix}` or baseTitle, trimmed (lines 1074-1077)
TitleWithSuffix(baseTitle, suffix) ==
  Trim(IF Len(suffix) > 0 THEN baseTitle \o <<"sp">> \o suffix ELSE baseTitle)

UpperTitle(baseTitle, rest) == TitleWithSuffix(baseTitle, Trim(rest))

\* upperHeadingRegex1 (line 1053): ^第\s*num\s*kind\s*[:：-]?\s*rest$
UpperHeading1(line, span) ==
  IF span.ok
  THEN [found |-> TRUE,
        title |-> UpperTitle(<<"di">> \o Slice(line, span.b, span.c) \o <<line[span.d]>>,
                             Slice(line, SeparatorEnd(line, span.d + 1), Len(line) + 1)),
        marker |-> line[span.d]]
  ELSE NoHeading

UpperPattern1(line, upper) == UpperHeading1(line, DiOrdinalMarkerAt(line, 1, upper))

\* upperHeadingRegex2 (line 1058): ^kind\s*num\s*[:：-]?\s*rest$
UpperHeading2(line, span) ==
  IF span.ok
  THEN [found |-> TRUE,
        title |-> UpperTitle(<<line[span.d]>> \o Slice(line, span.b, span.c),
                             Slice(line, SeparatorEnd(line, span.c), Len(line) + 1)),
        marker |-> line[span.d]]
  ELSE NoHeading

UpperPattern2(line, upper) == UpperHeading2(line, MarkerOrdinalAt(line, 1, upper))

\* of the keywords Book|Part|Section|Volume|Vol\.? the alphabet holds Book
BOOK_KEYWORD == <<"B", "o", "o", "k">>

\* `${keyword} ${number}` with the suffix; the marker is the keyword in
\* lower case (lines 1096-1104)
UpperHeading3(line, b, c) ==
  IF c > b
  THEN [found |-> TRUE,
        title |-> UpperTitle(BOOK_KEYWORD \o <<"sp">> \o Slice(line, b, c),
                             Slice(line, SeparatorEnd(line, c), Len(line) + 1)),
        marker |-> "book"]
  ELSE NoHeading

KeywordThenOrdinal(line, b) == UpperHeading3(line, b, OrdinalEnd(line, b))

\* upperHeadingRegex3 (line 1060): ^keyword\s*num\s*[:：-]?\s*rest$
UpperPattern3(line) ==
  IF Len(line) >= 4 /\ SubSeq(line, 1, 4) = BOOK_KEYWORD
  THEN KeywordThenOrdinal(line, SkipWs(line, 5)) ELSE NoHeading

\* /^【(.+?)】$/ (line 1108)
BracketPattern(line) ==
  IF Len(line) >= 3 /\ line[1] = "lb" /\ line[Len(line)] = "rb"
  THEN [found |-> TRUE, title |-> line, marker |-> "bracket"]
  ELSE NoHeading

\* lines 1114-1120: the first extractor that returns a heading
FirstHeading(h1, h2, h3) ==
  IF h1.found THEN h1 ELSE IF h2.found THEN h2 ELSE h3

\* extractUpperHeading (lines 1065-1121); the first two extractors exist
\* only when there are upper markers (with none, their patterns match
\* nothing here)
extractUpperHeading(line, h) ==
  FirstHeading(UpperPattern1(line, h.upperMarkers), UpperPattern2(line, h.upperMarkers),
               FirstHeading(NoHeading, UpperPattern3(line), BracketPattern(line)))

\* a rule that attaches every upper heading that has a marker
AttachAnyMarker(marker, h) == marker /= ""

\* lines 1162-1169 (the markers of the model have no case)
shouldAttachUpperHeading(marker, h) ==
  IF marker = "" THEN FALSE
  ELSE IF marker \in h.primaryMarkers THEN FALSE
  ELSE marker \in h.upperMarkers

\* ------------------------------------------------------------------------
\* parseChapterIndices: range construction (preprocess.ts 1207-1224)
\* ------------------------------------------------------------------------

RECURSIVE InsertByIndex(_, _)
\* e placed behind the entries of the sorted sequence whose index is <= its own
InsertByIndex(sorted, e) ==
  IF Len(sorted) = 0 THEN <<e>>
  ELSE IF sorted[Len(sorted)].index - e.index <= 0 THEN Append(sorted, e)
  ELSE Append(InsertByIndex(SubSeq(sorted, 1, Len(sorted) - 1), e), sorted[Len(sorted)])

RECURSIVE SortPrefix(_, _)
SortPrefix(entries, n) ==
  IF n = 0 THEN <<>> ELSE InsertByIndex(SortPrefix(entries, n - 1), entries[n])

\* a sort whose comparator is b.index - a.index
SortDescending(entries) == [k \in 1..Len(entries) |-> SortPrefix(entries, Len(entries))[Len(entries) + 1 - k]]

\* chapterIndices.sort((a, b) => a.index - b.index) (line 1211), stable
SortByIndex(entries) == SortPrefix(entries, Len(entries))

\* ranges that start on the heading line itself
RangesFromHeading(sorted, linesCount) ==
  [k \in 1..Len(sorted) |->
     [title |-> sorted[k].title,
      startLine |-> sorted[k].index,
      endLine |-> IF k + 1 <= Len(sorted) THEN sorted[k + 1].index ELSE linesCount]]

\* lines 1213-1222
RangesOf(sorted, linesCount) ==
  [k \in 1..Len(sorted) |->
     [title |-> sorted[k].title,
      startLine |-> sorted[k].index + 1,
      endLine |-> IF k + 1 <= Len(sorted) THEN sorted[k + 1].index ELSE linesCount]]

\* lines 1207-1224: the value parseChapterIndices returns
ParsedChapterIndices(entries, linesCount) ==
  IF Len(entries) = 0 THEN <<>> ELSE RangesOf(SortByIndex(entries), linesCount)

\* ------------------------------------------------------------------------
\* processBook: fallback rule and chapter text (preprocess.ts 1346-1376,
\* 1427-1438)
\* ------------------------------------------------------------------------

LINES_PER_CHAPTER == 300
MIN_FALLBACK_LINES == 10

DigitChar(d) ==
  CASE d = 0 -> "0" [] d = 1 -> "1" [] d = 2 -> "2" [] d = 3 -> "3" [] d = 4 -> "4"
    [] d = 5 -> "5" [] d = 6 -> "6" [] d = 7 -> "7" [] d = 8 -> "8" [] OTHER -> "9"

RECURSIVE Decimal(_)
\* `${n}` of a non-negative integer
Decimal(n) == IF n < 10 THEN <<DigitChar(n)>> ELSE Append(Decimal(n \div 10), DigitChar(n % 10))

\* line 1369: 第${chapterNum}章 第${startLine + 1}-${endLine}行
FallbackTitle(chapterNum, startLine, endLine) ==
  <<"di">> \o Decimal(chapterNum) \o <<"zhang", "sp", "di">>
  \o Decimal(startLine + 1) \o <<"-">> \o Decimal(endLine) \o <<"hang">>

\* fixed-size ranges whose last end is not clamped to totalLines
FallbackRangesUnclamped(totalLines) ==
  [k \in 1..((totalLines + LINES_PER_CHAPTER - 1) \div LINES_PER_CHAPTER) |->
     [title |-> FallbackTitle(k, (k - 1) * LINES_PER_CHAPTER, k * LINES_PER_CHAPTER),
      startLine |-> (k - 1) * LINES_PER_CHAPTER,
      endLine |-> k * LINES_PER_CHAPTER]]

\* lines 1364-1373
FallbackRanges(totalLines) ==
  [k \in 1..((totalLines + LINES_PER_CHAPTER - 1) \div LINES_PER_CHAPTER) |->
     LET startLine == (k - 1) * LINES_PER_CHAPTER
         endLine == Min(startLine + LINES_PER_CHAPTER, totalLines)
         chapterNum == (startLine \div LINES_PER_CHAPTER) + 1
     IN [title |-> FallbackTitle(chapterNum, startLine, endLine),
         startLine |-> startLine, endLine |-> endLine]]

\* Array.prototype.slice(start, end) with 0-based start <= end offsets
SliceLines(lines, start, end) == SubSeq(lines, start + 1, Min(end, Len(lines)))

\* UTF-8 length of one character
Utf8Bytes(c) == IF c \in DIGITS \cup {"sp", "-", "nl"} THEN 1 ELSE 3

\* Buffer.byteLength(s, "utf-8")
ByteLength(s) ==
  LET single == {k \in 1..Len(s) : Utf8Bytes(s[k]) = 1}
  IN Cardinality(single) + 3 * (Len(s) - Cardinality(single))

RECURSIVE JoinRange(_, _, _)
\* contentLines[lo..hi] joined by line feeds, computed by halves
JoinRange(contentLines, lo, hi) ==
  IF lo > hi THEN <<>>
  ELSE IF lo = hi THEN contentLines[lo]
  ELSE JoinRange(contentLines, lo, (lo + hi) \div 2) \o <<"nl">>
       \o JoinRange(contentLines, (lo + hi) \div 2 + 1, hi)

\* contentLines.join("\n"); "nl" is the line feed
Join(contentLines) == JoinRange(contentLines, 1, Len(contentLines))

\* x.replace(/\s+$/, "")
TrimEnd(x) == Slice(x, 1, SkipSetBack(x, Len(x), WS \cup {"nl"}) + 1)

\* lines 1427-1436: chapterText of one chapter range
ChapterText(lines, range) ==
  LET chapterHeader == Trim(range.title) \o <<"nl">>
      contentLines == SliceLines(lines, range.startLine, range.endLine)
  IN IF Len(contentLines) > 0
     THEN chapterHeader \o TrimEnd(Join(contentLines)) \o <<"nl", "nl">>
     ELSE chapterHeader \o <<"nl">>

\* ------------------------------------------------------------------------
\* State
\* ------------------------------------------------------------------------

VARIABLES
  lines,               \* processBook: text.split("\n")
  hierarchy,           \* parseChapterIndices: scanHeadingPatterns(lines)
  processed,           \* parseChapterIndices: processedLines with compositeFlags
  i,                   \* parseChapterIndices: index of the scan loop (0-based)
  currentHeading,      \* parseChapterIndices: the current upper heading
  chapterIndices,      \* parseChapterIndices: accepted {index, title}
  bookChapters,        \* processBook: chapterIndices (ParsedChapterIndex[])
  usedFallbackRule,    \* processBook
  chapterBytes,        \* processBook: chapterLength of each chapter
  idx,                 \* processBook: index of the chunk loop (0-based)
  chunkIndex,          \* processBook
  currentPart,         \* processBook: number in currentFilename
  streamOpen,          \* processBook: currentStream is not null
  chunkLength,         \* processBook
  chunkChapterEntries, \* processBook
  assetPaths,          \* processBook
  manifestChapters,    \* processBook
  distFiles,           \* segment files under dist/books, by <<bookId, part>>
  dataFiles,           \* per-book index files under dist/data, by bookId
  meta,                \* processBook: the book being processed
  existing,            \* processBook: the book's previous manifest entry
  publicFiles,         \* files under public/books, by <<bookId, part>>
  result,              \* processBook: the value returned
  streamErrored,       \* processBook: a write of currentStream has failed
  sourceFiles,         \* the archives under sourceRar, by bookId: what they hold
  manifestFile,        \* generated/manifest.json: the entries, by bookId
  pendingFile,         \* generated/pending_books.json
  booksJson,           \* dist/data/books.json as this run wrote it
  BATCH_SIZE,          \* main: process.env.BATCH_SIZE
  manifest,            \* main: loadManifest()
  nextManifest,        \* main
  booksToProcess,      \* main
  batchI,              \* main: index of the batch loop (0-based)
  parseLog,            \* the calls of parseChapterIndices: argument and value
  scored,              \* a line put to matchChapterHeading and computeHeadingConfidence
  paramsBookId,        \* onRequestGet: bookId, from params.bookId
  chaptersResponse,    \* onRequestGet: what env.ASSETS.fetch(chaptersUrl) does
  response,            \* onRequestGet: the Response returned
  segmentPaths,        \* onRequestGet: assetPaths
  pipeIndex,           \* onRequestGet: index of the piping loop (0-based)
  streamer,            \* onRequestGet: where the piping task stands
  piping,              \* onRequestGet: what assetResponse.body has yet to deliver
  written,             \* what has been written to `writable`
  writable,            \* the state of the writable side of the TransformStream
  driver,              \* which of the two batch loop scripts runs
  iteration,           \* batch loop: the runs started
  hasMore,             \* batch loop on the output: hasMore
  handed,              \* the books main has called processBook for, in order
  book,                \* SimpleReaderPage: the book, null until it is loaded
  progress,            \* SimpleReaderPage: getReadingProgress(bookId) at mount
  viewStart,           \* SimpleReaderPage: state viewStart
  viewEnd,             \* SimpleReaderPage: state viewEnd
  isInitialized,       \* SimpleReaderPage: state isInitialized
  isLoadingMore,       \* SimpleReaderPage: state isLoadingMore
  handleScroll,        \* SimpleReaderPage: what the scroll listener closes over
  fallbackBookIds,     \* fallback scanner: fallbackBookIds
  usedFallbackBooks,   \* the books whose latest processBook call set usedFallbackRule
  nameMap,             \* decodeTxtFromRar: nameMap
  usedNames,           \* decodeTxtFromRar: usedNames
  allocated,           \* the calls of filenameTransform: entry name and name returned
  contentQuery,        \* useBookContent: parts, totalSize, startByte, length
  contentLoop,         \* useBookContent: the variables of the loop over the parts
  rangeRequests,       \* useBookContent: the Range requests sent, in order
  contentChunks,       \* useBookContent: chunks
  contentResult,       \* useBookContent: what queryFn returned
  localStorage,        \* window.localStorage: the item novel-reading-progress:v1
  dateNow,             \* Date.now()
  savedEntry,          \* the argument of the latest saveReadingProgress call
  pc

bookVars == <<lines, hierarchy, processed, i, currentHeading, chapterIndices,
              bookChapters, usedFallbackRule, chapterBytes>>
chunkVars == <<idx, chunkIndex, currentPart, streamOpen, chunkLength,
               chunkChapterEntries, assetPaths, manifestChapters, streamErrored>>
fsVars == <<distFiles, dataFiles, publicFiles>>
callVars == <<meta, existing>>
mainVars == <<sourceFiles, manifestFile, pendingFile, booksJson, BATCH_SIZE, manifest,
              nextManifest, booksToProcess, batchI>>
engineVars == <<parseLog>>
scoreVars == <<scored>>
downloadVars == <<paramsBookId, chaptersResponse, response, segmentPaths, pipeIndex,
                  streamer, piping, written, writable>>
driverVars == <<driver, iteration, hasMore, handed>>
readerVars == <<book, progress, viewStart, viewEnd, isInitialized, isLoadingMore,
                handleScroll>>
rescanVars == <<fallbackBookIds, usedFallbackBooks>>
extractVars == <<nameMap, usedNames, allocated>>
contentVars == <<contentQuery, contentLoop, rangeRequests, contentChunks, contentResult>>
historyVars == <<localStorage, dateNow, savedEntry>>
webVars == <<contentVars, historyVars>>
auxVars == <<readerVars, rescanVars, extractVars, webVars>>
extVars == <<engineVars, scoreVars, downloadVars, driverVars, auxVars>>
callerVars == <<bookVars, chunkVars, fsVars, callVars, mainVars, engineVars, scoreVars,
                downloadVars, driverVars, result>>
vars == <<bookVars, chunkVars, fsVars, callVars, mainVars, extVars, result, pc>>

MAX_CHUNK_SIZE == 25 * 1024 * 1024 - 1024

NoHierarchy == [upperMarkers |-> {}, primaryMarkers |-> {}]
EmptyFiles == [p \in {} |-> 0]

\* ------------------------------------------------------------------------
\* parseChapterIndices, step by step
\* ------------------------------------------------------------------------

\* a parse that starts from the upper heading the previous parse ended with
StaleHeading(previous) == previous

\* let currentHeading = null: a local of the call, whatever an earlier
\* call left
FreshHeading(previous) == NoHeading

\* lines 873-932 and 968: vocabulary, processedLines, empty accumulator
ParseStart ==
  /\ pc = "parse"
  /\ hierarchy' = scanHeadingPatterns(lines)
  /\ processed' = ProcessedFrom(lines, 1, hierarchy')
  /\ i' = 0
  /\ currentHeading' = FreshHeading(currentHeading)
  /\ chapterIndices' = <<>>
  /\ pc' = "scan"
  /\ UNCHANGED <<extVars, mainVars, lines, bookChapters, usedFallbackRule, chapterBytes, chunkVars,
                 fsVars, callVars, result>>

\* headingPrefix + title, trimmed (lines 1192-1193, 1200-1201)
ComposedTitle(heading, h, line) ==
  IF heading.found /\ shouldAttachUpperHeading(heading.marker, h)
  THEN Trim(heading.title \o <<"sp">> \o line)
  ELSE Trim(line)

Keep(heading) == [heading |-> heading, push |-> <<>>]
Push(heading, index, title) ==
  [heading |-> heading, push |-> << [index |-> index, title |-> title] >>]

\* an upper heading that is kept once it is set
KeptHeading(heading, upperHeading) == IF heading.found THEN heading ELSE upperHeading

\* line 1180: currentHeading = upperHeading
ReplacedHeading(heading, upperHeading) == upperHeading

\* lines 1174-1204 for the trimmed line and its two candidates
ScanDecide(line, chapterCandidate, upperHeading, h, heading, index) ==
  IF Len(line) = 0 THEN Keep(heading)
  ELSE IF upperHeading.found /\ ~chapterCandidate.found
  THEN IF isHeadingAccepted(computeHeadingConfidence(line, 160, <<>>, <<>>))
       THEN Keep(ReplacedHeading(heading, upperHeading))
       ELSE Keep(heading)
  ELSE IF chapterCandidate.found
  THEN IF isHeadingAccepted(computeHeadingConfidence(line,
              chapterCandidate.baseConfidence, chapterCandidate.rest,
              chapterCandidate.separator))
       THEN Push(heading, index, ComposedTitle(heading, h, line))
       ELSE Keep(heading)
  ELSE IF specialTitles(line)
          /\ isHeadingAccepted(computeHeadingConfidence(line, 200, <<>>, <<>>))
  THEN Push(heading, index, ComposedTitle(heading, h, line))
  ELSE Keep(heading)

ScanTrimmed(line, fromComposite, h, heading, index) ==
  ScanDecide(line, matchChapterHeading(line, fromComposite, h),
             extractUpperHeading(line, h), h, heading, index)

\* the body of the scan loop (lines 1172-1204) for logical line `index`: the
\* new current heading and the entry pushed to chapterIndices, if any
ScanStep(rawLine, fromComposite, h, heading, index) ==
  ScanTrimmed(Trim(rawLine), fromComposite, h, heading, index)

\* one iteration of the loop at line 1171
ScanLine ==
  /\ pc = "scan"
  /\ i < Len(processed)
  /\ \E step \in {ScanStep(processed[i + 1].text, processed[i + 1].composite,
                            hierarchy, currentHeading, i)} :
       /\ currentHeading' = step.heading
       /\ chapterIndices' = chapterIndices \o step.push
  /\ i' = i + 1
  /\ UNCHANGED <<extVars, mainVars, lines, hierarchy, processed, bookChapters, usedFallbackRule,
                 chapterBytes, chunkVars, fsVars, callVars, result, pc>>

\* lines 1207-1224 and 1342: the loop is over, parseChapterIndices returns
ParseReturn ==
  /\ pc = "scan"
  /\ i = Len(processed)
  /\ bookChapters' = ParsedChapterIndices(chapterIndices, Len(processed))
  /\ pc' = "partition"
  /\ UNCHANGED <<extVars, mainVars, lines, hierarchy, processed, i, currentHeading, chapterIndices,
                 usedFallbackRule, chapterBytes, chunkVars, fsVars, callVars, result>>

\* ------------------------------------------------------------------------
\* processBook: partition and chunk writing (preprocess.ts 1346-1497)
\* ------------------------------------------------------------------------

NoBook == [present |-> FALSE]
NoResult == [returned |-> FALSE]
NoPendingFile == [exists |-> FALSE, list |-> <<>>]
NotWritten == [written |-> FALSE]

\* the files an asset list names, as removeObsoleteAssets resolves them
\* (line 1313: path.resolve("public", asset))
AssetFiles(bookId, assets) == {<<bookId, assets[k]>> : k \in 1..Len(assets)}

\* removeObsoleteAssets (lines 1311-1319): the files left under public/
removeObsoleteAssets(files, bookId, assets) == files \ AssetFiles(bookId, assets)

\* a file createWriteStream has just opened (line 1398)
NewFile == [size |-> 0, chapters |-> <<>>, status |-> "open"]

\* f with key k set to v
Put(f, k, v) == [x \in (DOMAIN f) \cup {k} |-> IF x = k THEN v ELSE f[x]]

\* chapterLength of every chapter (line 1438)
ChapterLengths(allLines, ranges) ==
  [k \in 1..Len(ranges) |-> ByteLength(ChapterText(allLines, ranges[k]))]

\* lines 1378-1420: obsolete assets removed, accumulators initialised, first
\* chunk started
BeginWriting ==
  /\ publicFiles' = IF existing.present
                    THEN removeObsoleteAssets(publicFiles, meta, existing.assets)
                    ELSE publicFiles
  /\ idx' = 0
  /\ chunkIndex' = 1
  /\ currentPart' = 1
  /\ streamOpen' = TRUE
  /\ chunkLength' = 0
  /\ chunkChapterEntries' = <<>>
  /\ assetPaths' = <<>>
  /\ manifestChapters' = <<>>
  /\ streamErrored' = FALSE
  /\ distFiles' = Put(distFiles, <<meta, 1>>, NewFile)
  /\ pc' = "chunk"

\* line 1346 not taken: parseChapterIndices found chapters
UseDetectedChapters ==
  /\ pc = "partition"
  /\ Len(bookChapters) > 0
  /\ chapterBytes' = ChapterLengths(lines, bookChapters)
  /\ BeginWriting
  /\ UNCHANGED <<extVars, mainVars, lines, hierarchy, processed, i, currentHeading, chapterIndices,
                 bookChapters, usedFallbackRule, dataFiles, callVars, result>>

\* a test that also rejects a text of exactly MIN_FALLBACK_LINES lines
TooSmallInclusive(totalLines) == totalLines <= MIN_FALLBACK_LINES

\* line 1350: totalLines < 10, totalLines being lines.length (line 1348)
IsTooSmall(totalLines) == totalLines < MIN_FALLBACK_LINES

\* lines 1350-1357: too few lines, the previous entry (or null) is returned
TooSmall ==
  /\ pc = "partition"
  /\ Len(bookChapters) = 0
  /\ IsTooSmall(Len(lines))
  /\ result' = [returned |-> TRUE, value |-> existing]
  /\ pc' = "returned"
  /\ UNCHANGED <<extVars, mainVars, bookVars, chunkVars, fsVars, callVars>>

\* lines 1359-1376 and on: fixed-size chapters
FallbackRule ==
  /\ pc = "partition"
  /\ Len(bookChapters) = 0
  /\ ~IsTooSmall(Len(lines))
  /\ usedFallbackRule' = TRUE
  /\ bookChapters' = FallbackRanges(Len(lines))
  /\ chapterBytes' = ChapterLengths(lines, bookChapters')
  /\ BeginWriting
  /\ UNCHANGED <<extVars, mainVars, lines, hierarchy, processed, i, currentHeading, chapterIndices,
                 dataFiles, callVars, result>>

\* flushChunk's end callback (lines 1408-1413): manifestChapters
FlushedChapters(chapters, entries, asset) ==
  chapters \o [k \in 1..Len(entries) |->
                 [order |-> entries[k].order, assetPath |-> asset,
                  startByte |-> entries[k].startByte, length |-> entries[k].length]]

\* the file of a stream after stream.write(chapterText)
Written(file, order, chapterLength) ==
  [file EXCEPT !.size = @ + chapterLength, !.chapters = Append(@, order)]

\* the file of a stream after stream.end: whole, or cut short by the failed
\* write
Ended(file, errored) == [file EXCEPT !.status = IF errored THEN "failed" ELSE "closed"]

\* a startNewChunk that does not reset chunkLength
KeepChunkLength(previous) == previous

\* chunkLength after startNewChunk (line 1399)
StartNewChunkLength(previous) == 0

\* line 1440
NeedsNewChunk(length, chapterLength) ==
  length + chapterLength > MAX_CHUNK_SIZE /\ length > 0

\* one iteration of the chunk loop (lines 1422-1457), flushChunk resolving
WriteChapter ==
  /\ pc = "chunk"
  /\ idx < Len(bookChapters)
  /\ LET chapterOrder == idx + 1
         chapterLength == chapterBytes[chapterOrder]
         flush == NeedsNewChunk(chunkLength, chapterLength)
         part == IF flush THEN chunkIndex + 1 ELSE currentPart
         base == IF flush THEN StartNewChunkLength(chunkLength) ELSE chunkLength
         startByte == base
         flushedFiles == IF flush
                         THEN Put(Put(distFiles, <<meta, currentPart>>,
                                      Ended(distFiles[<<meta, currentPart>>], streamErrored)),
                                  <<meta, part>>, NewFile)
                         ELSE distFiles
     IN /\ assetPaths' = IF flush THEN Append(assetPaths, currentPart) ELSE assetPaths
        /\ manifestChapters' = IF flush
                               THEN FlushedChapters(manifestChapters, chunkChapterEntries, currentPart)
                               ELSE manifestChapters
        /\ chunkIndex' = IF flush THEN chunkIndex + 1 ELSE chunkIndex
        /\ streamErrored' = IF flush THEN FALSE ELSE streamErrored
        /\ currentPart' = part
        /\ chunkLength' = base + chapterLength
        /\ chunkChapterEntries' =
             Append(IF flush THEN <<>> ELSE chunkChapterEntries,
                    [order |-> chapterOrder, startByte |-> startByte, length |-> chapterLength])
        /\ distFiles' = Put(flushedFiles, <<meta, part>>,
                            Written(flushedFiles[<<meta, part>>], chapterOrder, chapterLength))
  /\ idx' = idx + 1
  /\ UNCHANGED <<extVars, mainVars, bookVars, streamOpen, dataFiles, publicFiles, callVars,
                 result, pc>>

RECURSIVE CompactAssets(_)
\* lines 1460-1470: the asset paths of the chapters, first occurrences in order
CompactAssets(chapters) ==
  IF Len(chapters) = 0 THEN <<>>
  ELSE LET before == CompactAssets(SubSeq(chapters, 1, Len(chapters) - 1))
           asset == chapters[Len(chapters)].assetPath
       IN IF \E k \in 1..Len(before) : before[k] = asset THEN before
          ELSE Append(before, asset)

\* position of x in seq, 0-based
AssetIndexOf(seq, x) == (CHOOSE k \in 1..Len(seq) : seq[k] = x) - 1

\* lines 1462-1481: chaptersPayload
ChaptersPayload(chapters) ==
  LET compactAssets == CompactAssets(chapters)
  IN [assets |-> compactAssets,
      chapters |-> [k \in 1..Len(chapters) |->
                      [order |-> chapters[k].order,
                       assetIndex |-> AssetIndexOf(compactAssets, chapters[k].assetPath),
                       startByte |-> chapters[k].startByte,
                       length |-> chapters[k].length]]]

\* lines 1459-1496: last flushChunk resolving, index written, entry returned
FinishBook ==
  /\ pc = "chunk"
  /\ idx = Len(bookChapters)
  /\ streamOpen
  /\ LET flushed == FlushedChapters(manifestChapters, chunkChapterEntries, currentPart)
     IN /\ manifestChapters' = flushed
        /\ assetPaths' = Append(assetPaths, currentPart)
        /\ dataFiles' = Put(dataFiles, meta, ChaptersPayload(flushed))
        /\ result' = [returned |-> TRUE,
                      value |-> [present |-> TRUE, hash |-> "new",
                                 totalChapters |-> Len(flushed),
                                 assets |-> assetPaths']]
  /\ chunkIndex' = chunkIndex + 1
  /\ streamOpen' = FALSE
  /\ distFiles' = Put(distFiles, <<meta, currentPart>>,
                      Ended(distFiles[<<meta, currentPart>>], streamErrored))
  /\ pc' = "returned"
  /\ UNCHANGED <<extVars, mainVars, bookVars, idx, currentPart, chunkLength, chunkChapterEntries,
                 streamErrored, publicFiles, callVars>>

\* ------------------------------------------------------------------------
\* Documents
\* ------------------------------------------------------------------------

MaxLines == 3
MaxFallbackChapters == 2
MaxChapters == 4

\* 甲甲
Body == <<"jia", "jia">>
Blank == <<>>
\* 第一章 甲
ChapterLine == <<"di", "yi", "zhang", "sp", "jia">>
\* 第一章 甲第1章 甲
CompositeLine == <<"di", "yi", "zhang", "sp", "jia", "di", "1", "zhang", "sp", "jia">>
\* 甲第一章 甲
ProseThenChapter == <<"jia", "di", "yi", "zhang", "sp", "jia">>
\* 第一卷 甲
VolumeLine == <<"di", "yi", "juan", "sp", "jia">>
\* 序章
SpecialLine == <<"xu", "zhang">>

LineSet == {Body, Blank, ChapterLine, CompositeLine, ProseThenChapter, VolumeLine,
            SpecialLine}

RECURSIVE SeqsUpTo(_, _)
\* the sequences over S of length 1..n
SeqsUpTo(S, n) ==
  IF n = 0 THEN {}
  ELSE LET shorter == SeqsUpTo(S, n - 1)
       IN {<<x>> : x \in S} \cup shorter \cup {Append(q, x) : q \in shorter, x \in S}

\* the text is trimmed before it is split (line 1278), so its first and last
\* lines are not blank
ShortDocuments ==
  {d \in SeqsUpTo(LineSet, MaxLines) : Len(d[1]) > 0 /\ Len(d[Len(d)]) > 0}

\* n lines: `first`, then `filler` lines, then a last line of prose
Padded(first, filler, n) ==
  [k \in 1..n |-> IF k = 1 THEN first ELSE IF k = n THEN Body ELSE filler]

\* line counts around the limits of the fallback rule
PaddedSizes ==
  {MIN_FALLBACK_LINES - 1, MIN_FALLBACK_LINES}
  \cup {c * LINES_PER_CHAPTER + d : c \in 1..MaxFallbackChapters, d \in {-1, 0, 1}}

LongDocuments ==
  {Padded(first, filler, n) : first \in {Body, ChapterLine, CompositeLine},
                              filler \in {Body, Blank}, n \in PaddedSizes}

\* 第1卷 甲甲
ScenarioVolume == <<"di", "1", "juan", "sp", "jia", "jia">>
\* 第1章 甲甲
ScenarioChapter == <<"di", "1", "zhang", "sp", "jia", "jia">>

\* a volume heading followed later by a chapter heading
ScenarioDocuments ==
  {<<ScenarioVolume, ScenarioChapter>>, <<ScenarioVolume, Body, ScenarioChapter>>}

\* Book 2
BookLine == <<"B", "o", "o", "k", "sp", "2">>
\* 【甲】
BracketLine == <<"lb", "jia", "rb">>

\* an upper heading of each format, followed by a chapter heading
UpperFormDocuments ==
  {<<upper, ChapterLine>> : upper \in {VolumeLine, BookLine, BracketLine}}

\* lines with white space, prose and bracketed annotations around their
\* heading starts, and lines without a heading start
SplitLines ==
  {<<"sp", "di", "yi", "zhang", "sp", "jia">>,
   <<"jia", "sp", "di", "yi", "zhang", "sp", "jia", "sp", "di", "1", "zhang", "sp", "jia", "sp">>,
   <<"di", "yi", "zhang", "di", "1", "zhang", "di", "yi", "juan">>,
   <<"lb", "jia", "rb", "di", "yi", "zhang", "sp", "jia", "lb", "jia", "rb", "sp",
     "di", "1", "zhang">>,
   <<"jia", "di", "sp", "yi", "sp", "zhang", "jia", "sp", "sp", "di", "1", "zhang">>,
   <<"sp", "jia", "sp", "jia", "sp">>,
   <<"di", "yi", "sp", "jia">>}

\* a line between two lines of prose, and the same under a chapter heading
SplitDocuments ==
  {<<first, line, Body>> : first \in {Body, ChapterLine}, line \in SplitLines}

\* 第一卷 甲，甲，甲
PunctuatedVolumeLine == <<"di", "yi", "juan", "sp", "jia", "dou", "jia", "dou", "jia">>

\* a volume heading, then a second volume heading, a volume line with
\* sentence punctuation or a bracketed line, with chapter headings between
\* and after them
VolumeDocuments ==
  {<<VolumeLine, ChapterLine, ScenarioVolume, ChapterLine>>,
   <<VolumeLine, PunctuatedVolumeLine, ChapterLine>>,
   <<VolumeLine, BracketLine, ChapterLine>>,
   <<ChapterLine, VolumeLine, ChapterLine>>}

\* 第一章
BareChapterLine == <<"di", "yi", "zhang">>

\* headings with no title behind the marker, on a line of their own, behind
\* prose on the same line, and next to a heading with a title
BareDocuments ==
  {<<Body, BareChapterLine, Body>>,
   <<BareChapterLine \o <<"colon", "sp">>, Body>>,
   <<<<"sp">> \o BareChapterLine, Body>>,
   <<<<"jia">> \o BareChapterLine, Body>>,
   <<BareChapterLine \o ChapterLine, Body>>,
   <<ChapterLine \o <<"1", "zhang", "sp">>, Body>>}

\* chapter lines whose numeral has no 第 in front of it, in the forms
\* numeral + marker and marker + numeral, behind nothing, behind a bracketed
\* annotation and behind a bracketed annotation that holds 第
NumeralLines ==
  {annotation \o heading \o <<"sp", "jia">> :
     annotation \in {<<>>, <<"lb", "jia", "rb">>, <<"lb", "di", "rb">>,
                     <<"lb", "di", "yi", "juan", "rb", "sp">>},
     heading \in {<<"yi", "zhang">>, <<"zhang", "yi">>, <<"1", "zhang">>,
                  <<"di", "yi", "zhang">>}}

\* such a line behind a chapter heading
NumeralDocuments == {<<ChapterLine, line, Body>> : line \in NumeralLines}

Documents ==
  ShortDocuments \cup LongDocuments \cup ScenarioDocuments \cup UpperFormDocuments
  \cup SplitDocuments \cup VolumeDocuments \cup BareDocuments \cup NumeralDocuments

\* ------------------------------------------------------------------------
\* Specification of one processBook call on a decoded text
\* ------------------------------------------------------------------------

\* the manifest entry, segment and index a previous run left for the book
PreviousEntry == [present |-> TRUE, hash |-> "old", totalChapters |-> 1, assets |-> <<1>>]
PreviousSegment == [size |-> 1024, chapters |-> <<1>>, status |-> "closed"]
PreviousIndex ==
  ChaptersPayload(<< [order |-> 1, assetPath |-> 1, startByte |-> 0, length |-> 1024] >>)

IdleChunk ==
  /\ streamErrored = FALSE
  /\ idx = 0
  /\ chunkIndex = 1
  /\ currentPart = 1
  /\ streamOpen = FALSE
  /\ chunkLength = 0
  /\ chunkChapterEntries = <<>>
  /\ assetPaths = <<>>
  /\ manifestChapters = <<>>

\* no run of main
IdleMain ==
  /\ sourceFiles = EmptyFiles
  /\ manifestFile = EmptyFiles
  /\ pendingFile = NoPendingFile
  /\ booksJson = NotWritten
  /\ BATCH_SIZE = 1
  /\ manifest = EmptyFiles
  /\ nextManifest = EmptyFiles
  /\ booksToProcess = <<>>
  /\ batchI = 0

\* nothing but the run under study
NotScored == [done |-> FALSE]

NoResponse == [status |-> 0]

\* no request is being answered
IdleDownload ==
  /\ paramsBookId = ""
  /\ chaptersResponse = [kind |-> "none"]
  /\ response = NoResponse
  /\ segmentPaths = <<>>
  /\ pipeIndex = 0
  /\ streamer = "none"
  /\ piping = <<>>
  /\ written = <<>>
  /\ writable = "none"

\* main is run on its own, not by a batch loop
IdleDriver ==
  /\ driver = "none"
  /\ iteration = 0
  /\ hasMore = TRUE
  /\ handed = <<>>

\* useBook has not answered
BookNotLoaded == [totalSize |-> 0]

\* the values viewStart, viewEnd, book and isLoadingMore of one render, which
\* the handleScroll of that render closes over (useCallback, line 193)
Rendered(start, end, data, loading) ==
  [viewStart |-> start, viewEnd |-> end, book |-> data, isLoadingMore |-> loading]

\* no reader page is mounted
IdleReader ==
  /\ book = BookNotLoaded
  /\ progress = 0
  /\ viewStart = 0
  /\ viewEnd = 0
  /\ isInitialized = FALSE
  /\ isLoadingMore = FALSE
  /\ handleScroll = Rendered(0, 0, BookNotLoaded, FALSE)

\* the fallback scanner has not run
IdleRescan ==
  /\ fallbackBookIds = <<>>
  /\ usedFallbackBooks = {}

\* no archive is being extracted
IdleExtract ==
  /\ nameMap = EmptyFiles
  /\ usedNames = EmptyFiles
  /\ allocated = <<>>

\* no content query is running
NoQuery == [parts |-> <<>>, totalSize |-> 0, startByte |-> 0, length |-> 0]
NoLoop == [k |-> 0, currentByte |-> 0, remainingStart |-> 0, remainingLength |-> 0]
NoContentResult == [state |-> "none", merged |-> <<>>]
IdleContent ==
  /\ contentQuery = NoQuery
  /\ contentLoop = NoLoop
  /\ rangeRequests = <<>>
  /\ contentChunks = <<>>
  /\ contentResult = NoContentResult

\* no reading progress has been stored
NoItem == [present |-> FALSE, entries |-> <<>>]
NoEntry == [bookId |-> 0, chapterId |-> 0]
IdleHistory ==
  /\ localStorage = NoItem
  /\ dateNow = 0
  /\ savedEntry = NoEntry

IdleWeb ==
  /\ IdleContent
  /\ IdleHistory

IdleAux ==
  /\ IdleReader
  /\ IdleRescan
  /\ IdleExtract
  /\ IdleWeb

IdleExt ==
  /\ parseLog = <<>>
  /\ scored = NotScored
  /\ IdleDownload
  /\ IdleDriver
  /\ IdleAux

IdleParse ==
  /\ hierarchy = NoHierarchy
  /\ processed = <<>>
  /\ i = 0
  /\ currentHeading = NoHeading
  /\ chapterIndices = <<>>
  /\ bookChapters = <<>>
  /\ usedFallbackRule = FALSE
  /\ chapterBytes = <<>>

InitBook ==
  /\ IdleExt
  /\ lines \in Documents
  /\ IdleParse
  /\ IdleChunk
  /\ meta = "book"
  /\ existing \in {NoBook, PreviousEntry}
  /\ distFiles = IF existing.present
                 THEN Put(EmptyFiles, <<meta, 1>>, PreviousSegment) ELSE EmptyFiles
  /\ dataFiles = IF existing.present THEN Put(EmptyFiles, meta, PreviousIndex) ELSE EmptyFiles
  /\ publicFiles = {}
  /\ result = NoResult
  /\ IdleMain
  /\ pc = "parse"

NextBook ==
  \/ ParseStart
  \/ ScanLine
  \/ ParseReturn
  \/ UseDetectedChapters
  \/ TooSmall
  \/ FallbackRule
  \/ WriteChapter
  \/ FinishBook

SpecBook == InitBook /\ [][NextBook]_vars

\* ------------------------------------------------------------------------
\* Specification of the chunk loop on chapters of given byte lengths
\* ------------------------------------------------------------------------

ChapterSizes ==
  {1024, MAX_CHUNK_SIZE \div 2, MAX_CHUNK_SIZE \div 2 + 1, MAX_CHUNK_SIZE,
   MAX_CHUNK_SIZE + 1}

InitChunk ==
  /\ IdleExt
  /\ lines = <<>>
  /\ hierarchy = NoHierarchy
  /\ processed = <<>>
  /\ i = 0
  /\ currentHeading = NoHeading
  /\ chapterIndices = <<>>
  /\ usedFallbackRule = FALSE
  /\ \E n \in 1..MaxChapters :
       /\ bookChapters = [k \in 1..n |-> [title |-> ChapterLine, startLine |-> 0, endLine |-> 0]]
       /\ chapterBytes \in [1..n -> ChapterSizes]
  /\ idx = 0
  /\ streamErrored = FALSE
  /\ chunkIndex = 1
  /\ currentPart = 1
  /\ streamOpen = TRUE
  /\ chunkLength = 0
  /\ chunkChapterEntries = <<>>
  /\ assetPaths = <<>>
  /\ manifestChapters = <<>>
  /\ distFiles = Put(EmptyFiles, <<"book", 1>>, NewFile)
  /\ dataFiles = EmptyFiles
  /\ publicFiles = {}
  /\ meta = "book"
  /\ existing = NoBook
  /\ result = NoResult
  /\ IdleMain
  /\ pc = "chunk"

NextChunk == WriteChapter \/ FinishBook

SpecChunk == InitChunk /\ [][NextChunk]_vars

\* ------------------------------------------------------------------------
\* main (preprocess.ts 1499-1690): one run over the archives of sourceRar
\* ------------------------------------------------------------------------

MaxBooks == 2
MaxBatchSize == 2

Books == 1..MaxBooks

\* the entry of a book whose archive has not changed since it was processed
CurrentEntry == [PreviousEntry EXCEPT !.hash = "new"]

\* the chapterLength of the chapters of an archive that holds a text: the
\* first fills a segment, the second starts the next one
ArchiveChapters == <<MAX_CHUNK_SIZE, 1024>>

RECURSIVE ScanOrder(_)
\* the order in which fs.readdir lists the archives
ScanOrder(S) ==
  IF S = {} THEN <<>> ELSE <<SetMin(S)>> \o ScanOrder(S \ {SetMin(S)})

\* line 1555
NeedsProcessing(b) ==
  \/ b \notin DOMAIN manifestFile
  \/ manifestFile[b].hash /= "new"
  \/ b \notin DOMAIN dataFiles

\* lines 1518-1526: the entries whose archive is still there
CarriedOver(entries, sources) == [b \in (DOMAIN entries) \cap sources |-> entries[b]]

\* lines 1512-1515: no archive, the run returns at once
MainNoSources ==
  /\ pc = "main"
  /\ DOMAIN sourceFiles = {}
  /\ manifest' = manifestFile
  /\ pc' = "done"
  /\ UNCHANGED <<extVars, bookVars, chunkVars, fsVars, callVars, result, sourceFiles, manifestFile,
                 pendingFile, booksJson, BATCH_SIZE, nextManifest, booksToProcess, batchI>>

\* the list the scan keeps (lines 1547-1562) or the cached one (lines 1538-1540)
ListToProcess ==
  IF pendingFile.exists THEN pendingFile.list
  ELSE ScanOrder({b \in DOMAIN sourceFiles : NeedsProcessing(b)})

\* lines 1505-1592: manifest loaded, entries carried over, list of books to
\* process read from the cache or found by the scan
MainStart ==
  /\ pc = "main"
  /\ DOMAIN sourceFiles /= {}
  /\ manifest' = manifestFile
  /\ nextManifest' = CarriedOver(manifestFile, DOMAIN sourceFiles)
  /\ booksToProcess' = ListToProcess
  /\ pendingFile' = IF Len(ListToProcess) > 0
                    THEN [exists |-> TRUE, list |-> ListToProcess] ELSE NoPendingFile
  /\ batchI' = 0
  /\ pc' = IF Len(ListToProcess) = 0 THEN "cleanup" ELSE "batch"
  /\ UNCHANGED <<extVars, bookVars, chunkVars, fsVars, callVars, result, sourceFiles, manifestFile,
                 booksJson, BATCH_SIZE>>

\* line 1586
BatchSize == Min(BATCH_SIZE, Len(booksToProcess))

\* the run is in the batch loop with a book left (line 1594)
AtBook == pc = "batch" /\ batchI < BatchSize

\* line 1601: fs.stat of an archive that is no longer there throws; nothing
\* in the loop catches, main rejects (lines 1687-1690)
StatFails ==
  /\ AtBook
  /\ booksToProcess[batchI + 1] \notin DOMAIN sourceFiles
  /\ pc' = "failed"
  /\ UNCHANGED <<extVars, bookVars, chunkVars, fsVars, callVars, result, mainVars>>

\* lines 1595-1607: processBook is called for the book
BookCall ==
  /\ AtBook
  /\ booksToProcess[batchI + 1] \in DOMAIN sourceFiles
  /\ meta' = booksToProcess[batchI + 1]
  /\ existing' = IF meta' \in DOMAIN manifest THEN manifest[meta'] ELSE NoBook
  /\ result' = NoResult
  /\ handed' = Append(handed, booksToProcess[batchI + 1])
  /\ pc' = "process"
  /\ UNCHANGED <<engineVars, scoreVars, downloadVars, auxVars, driver, iteration, hasMore, bookVars,
                 chunkVars, fsVars, mainVars>>

\* line 1332: decodeTxtFromRar throws (lines 1249-1290 catch nothing), and
\* so do processBook and main
BookCorrupt ==
  /\ pc = "process"
  /\ sourceFiles[meta] = "corrupt"
  /\ pc' = "failed"
  /\ UNCHANGED <<extVars, bookVars, chunkVars, fsVars, callVars, result, mainVars>>

\* a processBook that returns null when there is no text
NoTextNull(previous) == NoBook

\* line 1336: existing ?? null
NoTextResult(previous) == previous

\* lines 1332-1337: no usable text in the archive
BookNoText ==
  /\ pc = "process"
  /\ sourceFiles[meta] = "notext"
  /\ result' = [returned |-> TRUE, value |-> NoTextResult(existing)]
  /\ pc' = "returned"
  /\ UNCHANGED <<extVars, bookVars, chunkVars, fsVars, callVars, mainVars>>

\* lines 1339-1420 for an archive that holds a text with chapters
BookParsed ==
  /\ pc = "process"
  /\ sourceFiles[meta] = "ok"
  /\ bookChapters' = [k \in 1..Len(ArchiveChapters) |->
                        [title |-> ChapterLine, startLine |-> 0, endLine |-> 0]]
  /\ chapterBytes' = ArchiveChapters
  /\ usedFallbackRule' = FALSE
  /\ BeginWriting
  /\ UNCHANGED <<extVars, lines, hierarchy, processed, i, currentHeading, chapterIndices,
                 dataFiles, callVars, result, mainVars>>

\* a write to the current segment fails (disk full, I/O error)
StreamError ==
  /\ pc = "chunk"
  /\ streamOpen
  /\ ~streamErrored
  /\ streamErrored' = TRUE
  /\ UNCHANGED <<extVars, bookVars, idx, chunkIndex, currentPart, streamOpen, chunkLength,
                 chunkChapterEntries, assetPaths, manifestChapters, fsVars, callVars,
                 result, mainVars, pc>>

\* flushChunk is due: before a chapter that does not fit, or after the loop
FlushDue ==
  \/ idx = Len(bookChapters)
  \/ idx < Len(bookChapters) /\ NeedsNewChunk(chunkLength, chapterBytes[idx + 1])

\* lines 1406-1416 on a failed stream when the error listener runs before the
\* callback of end: flushChunk rejects, processBook and main reject
FlushRejects ==
  /\ pc = "chunk"
  /\ streamErrored
  /\ FlushDue
  /\ distFiles' = Put(distFiles, <<meta, currentPart>>,
                      Ended(distFiles[<<meta, currentPart>>], TRUE))
  /\ pc' = "failed"
  /\ UNCHANGED <<extVars, bookVars, chunkVars, dataFiles, publicFiles, callVars, result, mainVars>>

\* lines 1608-1619: the value processBook returned is recorded
BookReturned ==
  /\ pc = "returned"
  /\ nextManifest' = IF result.value.present
                     THEN Put(nextManifest, meta, result.value) ELSE nextManifest
  /\ batchI' = batchI + 1
  /\ pc' = "batch"
  /\ UNCHANGED <<extVars, bookVars, chunkVars, fsVars, callVars, result, sourceFiles, manifestFile,
                 pendingFile, booksJson, BATCH_SIZE, manifest, booksToProcess>>

\* lines 1631-1651: the pending list loses the books of the batch
BatchEnd ==
  /\ pc = "batch"
  /\ batchI = BatchSize
  /\ pendingFile' = IF Len(booksToProcess) > BatchSize
                    THEN [exists |-> TRUE,
                          list |-> SubSeq(booksToProcess, BatchSize + 1, Len(booksToProcess))]
                    ELSE NoPendingFile
  /\ pc' = "cleanup"
  /\ UNCHANGED <<extVars, bookVars, chunkVars, fsVars, callVars, result, sourceFiles, manifestFile,
                 booksJson, BATCH_SIZE, manifest, nextManifest, booksToProcess, batchI>>

\* the books of the old manifest that the new one does not hold (line 1656)
RemovedBooks == (DOMAIN manifest) \ (DOMAIN nextManifest)

\* lines 1654-1679: artifacts of removed books cleaned up, manifest and
\* books.json written
Finish ==
  /\ pc = "cleanup"
  /\ publicFiles' = {f \in publicFiles :
                       f[1] \notin RemovedBooks
                       \/ f \notin AssetFiles(f[1], manifest[f[1]].assets)}
  /\ dataFiles' = [b \in (DOMAIN dataFiles) \ RemovedBooks |-> dataFiles[b]]
  /\ manifestFile' = nextManifest
  /\ booksJson' = [written |-> TRUE,
                   books |-> [b \in DOMAIN nextManifest |-> nextManifest[b].totalChapters]]
  /\ pc' = "done"
  /\ UNCHANGED <<extVars, bookVars, chunkVars, distFiles, callVars, result, sourceFiles, pendingFile,
                 BATCH_SIZE, manifest, nextManifest, booksToProcess, batchI>>

\* the sequences without repetition over S
DistinctSeqs(S) ==
  {q \in SeqsUpTo(S, Cardinality(S)) : \A a, b \in 1..Len(q) : a /= b => q[a] /= q[b]}

\* what sourceRar, the manifest and dist/data can hold for one book: an entry
\* with the hash of the archive exists only for an archive that yielded a
\* text; "unindexed" is such an entry whose index file is gone
BookStates ==
  {<<"absent", "none">>, <<"absent", "old">>, <<"ok", "none">>, <<"ok", "old">>,
   <<"ok", "current">>, <<"ok", "unindexed">>, <<"notext", "none">>, <<"notext", "old">>,
   <<"corrupt", "none">>, <<"corrupt", "old">>}

InitBatch ==
  /\ IdleExt
  /\ \E state \in [Books -> BookStates] :
       /\ sourceFiles = [b \in {x \in Books : state[x][1] /= "absent"} |-> state[b][1]]
       /\ manifestFile = [b \in {x \in Books : state[x][2] /= "none"} |->
                            IF state[b][2] = "old" THEN PreviousEntry ELSE CurrentEntry]
       /\ dataFiles = [b \in {x \in Books : state[x][2] \in {"old", "current"}} |->
                         PreviousIndex]
  /\ distFiles = [f \in {<<b, 1>> : b \in DOMAIN manifestFile} |-> PreviousSegment]
  /\ publicFiles = {}
  /\ pendingFile \in {NoPendingFile}
                     \cup {[exists |-> TRUE, list |-> q] : q \in DistinctSeqs(Books)}
  /\ BATCH_SIZE \in 1..MaxBatchSize
  /\ booksJson = NotWritten
  /\ manifest = EmptyFiles
  /\ nextManifest = EmptyFiles
  /\ booksToProcess = <<>>
  /\ batchI = 0
  /\ lines = <<>>
  /\ IdleParse
  /\ IdleChunk
  /\ meta = 0
  /\ existing = NoBook
  /\ result = NoResult
  /\ pc = "main"

NextBatch ==
  \/ MainNoSources
  \/ MainStart
  \/ StatFails
  \/ BookCall
  \/ BookCorrupt
  \/ BookNoText
  \/ BookParsed
  \/ StreamError
  \/ WriteChapter
  \/ FlushRejects
  \/ FinishBook
  \/ BookReturned
  \/ BatchEnd
  \/ Finish

SpecBatch == InitBatch /\ [][NextBatch]_vars

\* ------------------------------------------------------------------------
\* The batch loops (unnamed/part_001 1-107 and 109-228): main is run in a
\* child process again and again
\* ------------------------------------------------------------------------

\* the two scripts: the first looks for generated/pending_books.json after a
\* run (line 75), the second searches the output of the run (line 175)
DRIVERS == {"pendingFile", "output"}

\* lines 69 and 192
maxIterations(script) == IF script = "pendingFile" THEN 1000 ELSE 10000

\* what main prints, as far as the search of the output can tell the texts
\* apart: "num" is a run of digits, "text" any other text
\* line 1501: 批处理设置: 每批最多处理 N 本书
SettingMessage == <<"text", "colon", "sp", "text", "sp", "num", "sp", "ben", "shu">>
\* line 1513
NoArchiveMessage == <<"text">>
\* line 1528: 找到 N 本书
FoundMessage == <<"text", "sp", "num", "sp", "ben", "shu">>
\* line 1579: 所有 N 本书都已是最新状态，无需处理。
UpToDateMessage == <<"text", "sp", "num", "sp", "ben", "shu", "text">>
\* line 1585: 待处理: N 本
ToProcessMessage == <<"daichuli", "colon", "sp", "num", "sp", "ben">>
\* line 1642: 还有 N 本待处理，外部循环将自动继续...
RemainingMessage == <<"haiyou", "sp", "num", "sp", "ben", "daichuli", "text">>
\* line 1647
AllDoneMessage == <<"text">>

\* console.log ends every message with a line feed
LogLine(message) == message \o <<"nl">>

\* the standard output of a run of main that has ended, from what the run
\* found and did (lines 1501, 1512-1515, 1528, 1578-1585, 1635-1651)
RunOutput ==
  LogLine(SettingMessage)
  \o (IF DOMAIN sourceFiles = {} THEN LogLine(NoArchiveMessage)
      ELSE LogLine(FoundMessage)
           \o (IF Len(booksToProcess) = 0 THEN LogLine(UpToDateMessage)
               ELSE LogLine(ToProcessMessage)
                    \o (IF Len(booksToProcess) > Min(BATCH_SIZE, Len(booksToProcess))
                        THEN LogLine(RemainingMessage)
                        ELSE LogLine(AllDoneMessage))))

\* \s
REGEX_WS == {"sp", "nl"}

\* 本书待处理 at position p of the output
BooksPendingAt(output, p) ==
  /\ p + 2 <= Len(output)
  /\ output[p] = "ben"
  /\ output[p + 1] = "shu"
  /\ output[p + 2] = "daichuli"

\* \s+\d+\s+ from position a on, then 本书待处理
CountThenBooksPending(output, a, b, c, d) ==
  /\ b > a
  /\ c > b
  /\ d > c
  /\ BooksPendingAt(output, d)

\* /还有\s+\d+\s+本书待处理/ tried at position p of the output
HasMoreAt(output, p) ==
  /\ output[p] = "haiyou"
  /\ CountThenBooksPending(output, p + 1, SkipSet(output, p + 1, REGEX_WS),
                           SkipSet(output, SkipSet(output, p + 1, REGEX_WS), {"num"}),
                           SkipSet(output,
                                   SkipSet(output, SkipSet(output, p + 1, REGEX_WS), {"num"}),
                                   REGEX_WS))

\* line 175: /还有\s+\d+\s+本书待处理/.test(output)
hasMoreBooks(output) == \E p \in 1..Len(output) : HasMoreAt(output, p)

\* the child process starts with nothing but the files and its environment
FreshProcess ==
  /\ manifest' = EmptyFiles
  /\ nextManifest' = EmptyFiles
  /\ booksToProcess' = <<>>
  /\ batchI' = 0
  /\ lines' = <<>>
  /\ hierarchy' = NoHierarchy
  /\ processed' = <<>>
  /\ i' = 0
  /\ currentHeading' = NoHeading
  /\ chapterIndices' = <<>>
  /\ bookChapters' = <<>>
  /\ usedFallbackRule' = FALSE
  /\ chapterBytes' = <<>>
  /\ streamErrored' = FALSE
  /\ idx' = 0
  /\ chunkIndex' = 1
  /\ currentPart' = 1
  /\ streamOpen' = FALSE
  /\ chunkLength' = 0
  /\ chunkChapterEntries' = <<>>
  /\ assetPaths' = <<>>
  /\ manifestChapters' = <<>>
  /\ meta' = 0
  /\ existing' = NoBook
  /\ result' = NoResult

\* part_001 lines 71-72 and 32-51, 195-196 and 140-159: the loop goes on and
\* starts a run of main in a new process
RunPreprocess ==
  /\ pc = "loop"
  /\ iteration < maxIterations(driver)
  /\ driver = "output" => hasMore
  /\ iteration' = iteration + 1
  /\ FreshProcess
  /\ pc' = "main"
  /\ UNCHANGED <<engineVars, scoreVars, downloadVars, auxVars, driver, hasMore, handed, fsVars,
                 sourceFiles, manifestFile, pendingFile, booksJson, BATCH_SIZE>>

\* part_001 lines 71 and 87-99, 195 and 208-220: the limit of iterations is
\* reached
IterationLimit ==
  /\ pc = "loop"
  /\ iteration >= maxIterations(driver)
  /\ pc' = "stopped"
  /\ UNCHANGED <<bookVars, chunkVars, fsVars, callVars, mainVars, extVars, result>>

\* part_001 lines 53-55 and 75-85: the run has ended with code 0
PendingFileChecked ==
  /\ pc = "done"
  /\ driver = "pendingFile"
  /\ pc' = IF pendingFile.exists THEN "loop" ELSE "stopped"
  /\ UNCHANGED <<bookVars, chunkVars, fsVars, callVars, mainVars, extVars, result>>

\* part_001 lines 172-176 and 197-205: the run has ended with code 0
OutputChecked ==
  /\ pc = "done"
  /\ driver = "output"
  /\ hasMore' = hasMoreBooks(RunOutput)
  /\ pc' = IF hasMore' THEN "loop" ELSE "stopped"
  /\ UNCHANGED <<bookVars, chunkVars, fsVars, callVars, mainVars, engineVars, scoreVars,
                 downloadVars, auxVars, driver, iteration, handed, result>>

\* part_001 lines 56-58 and 101-104, 177-179 and 222-225: the run has ended
\* with another code, the loop ends with process.exit(1)
RunRejected ==
  /\ pc = "failed"
  /\ driver \in DRIVERS
  /\ pc' = "exit"
  /\ UNCHANGED <<bookVars, chunkVars, fsVars, callVars, mainVars, extVars, result>>

InitDriver ==
  /\ parseLog = <<>>
  /\ scored = NotScored
  /\ IdleDownload
  /\ IdleAux
  /\ driver \in DRIVERS
  /\ iteration = 0
  /\ hasMore = TRUE
  /\ handed = <<>>
  /\ \E state \in [Books -> BookStates] :
       /\ sourceFiles = [b \in {x \in Books : state[x][1] /= "absent"} |-> state[b][1]]
       /\ manifestFile = [b \in {x \in Books : state[x][2] /= "none"} |->
                            IF state[b][2] = "old" THEN PreviousEntry ELSE CurrentEntry]
       /\ dataFiles = [b \in {x \in Books : state[x][2] \in {"old", "current"}} |->
                         PreviousIndex]
  /\ distFiles = [f \in {<<b, 1>> : b \in DOMAIN manifestFile} |-> PreviousSegment]
  /\ publicFiles = {}
  /\ pendingFile \in {NoPendingFile}
                     \cup {[exists |-> TRUE, list |-> q] : q \in DistinctSeqs(Books)}
  /\ BATCH_SIZE \in 1..MaxBatchSize
  /\ booksJson = NotWritten
  /\ manifest = EmptyFiles
  /\ nextManifest = EmptyFiles
  /\ booksToProcess = <<>>
  /\ batchI = 0
  /\ lines = <<>>
  /\ IdleParse
  /\ IdleChunk
  /\ meta = 0
  /\ existing = NoBook
  /\ result = NoResult
  /\ pc = "loop"

NextDriver ==
  \/ RunPreprocess
  \/ IterationLimit
  \/ PendingFileChecked
  \/ OutputChecked
  \/ RunRejected
  \/ MainNoSources
  \/ MainStart
  \/ StatFails
  \/ BookCall
  \/ BookCorrupt
  \/ BookNoText
  \/ BookParsed
  \/ WriteChapter
  \/ FinishBook
  \/ BookReturned
  \/ BatchEnd
  \/ Finish

SpecDriver == InitDriver /\ [][NextDriver]_vars

\* ------------------------------------------------------------------------
\* Specification of two calls of parseChapterIndices, one after the other in
\* the same process
\* ------------------------------------------------------------------------

MaxEngineLines == 2

\* 第一卷 甲甲
OtherVolumeLine == <<"di", "yi", "juan", "sp", "jia", "jia">>

EngineDocuments ==
  SeqsUpTo({ChapterLine, CompositeLine, VolumeLine, OtherVolumeLine}, MaxEngineLines)

\* parseChapterIndices(lines) is called with a document (line 1342)
ParseCall ==
  /\ pc = "idle"
  /\ Len(parseLog) < 2
  /\ \E document \in EngineDocuments :
       /\ lines' = document
       /\ parseLog' = Append(parseLog, [given |-> document, returned |-> FALSE,
                                         lines |-> <<>>, chapters |-> <<>>])
  /\ pc' = "parse"
  /\ UNCHANGED <<hierarchy, processed, i, currentHeading, chapterIndices, bookChapters,
                 usedFallbackRule, chapterBytes, chunkVars, fsVars, callVars, mainVars,
                 scoreVars, downloadVars, auxVars, driverVars, result>>

\* lines 1207-1224: the call returns; the caller holds the value and the
\* array it passed
ParseCollect ==
  /\ pc = "scan"
  /\ i = Len(processed)
  /\ Len(parseLog) > 0
  /\ parseLog' = [parseLog EXCEPT ![Len(parseLog)] =
                    [given |-> @.given, returned |-> TRUE, lines |-> lines,
                     chapters |-> ParsedChapterIndices(chapterIndices, Len(processed))]]
  /\ pc' = "idle"
  /\ UNCHANGED <<bookVars, chunkVars, fsVars, callVars, mainVars, scoreVars, downloadVars, auxVars,
                 driverVars, result>>

InitEngine ==
  /\ IdleExt
  /\ lines = <<>>
  /\ IdleParse
  /\ IdleChunk
  /\ IdleMain
  /\ distFiles = EmptyFiles
  /\ dataFiles = EmptyFiles
  /\ publicFiles = {}
  /\ meta = "book"
  /\ existing = NoBook
  /\ result = NoResult
  /\ pc = "idle"

NextEngine == ParseCall \/ ParseStart \/ ScanLine \/ ParseCollect

SpecEngine == InitEngine /\ [][NextEngine]_vars

\* ------------------------------------------------------------------------
\* parseChapterIndices as a function of the document
\* ------------------------------------------------------------------------

RECURSIVE ScanFrom(_, _, _, _, _)
\* the scan loop from logical line k on, by its locals alone
ScanFrom(logical, h, k, heading, entries) ==
  IF k = Len(logical) THEN entries
  ELSE ScanFrom(logical, h, k + 1,
                ScanStep(logical[k + 1].text, logical[k + 1].composite, h, heading, k).heading,
                entries \o ScanStep(logical[k + 1].text, logical[k + 1].composite, h,
                                    heading, k).push)

ParseWith(logical, h) ==
  ParsedChapterIndices(ScanFrom(logical, h, 0, NoHeading, <<>>), Len(logical))

\* what a call on the document computes when nothing precedes it
parseChapterIndices(document) ==
  ParseWith(ProcessedFrom(document, 1, scanHeadingPatterns(document)),
            scanHeadingPatterns(document))

\* ------------------------------------------------------------------------
\* Specification of the scoring of one line
\* ------------------------------------------------------------------------

\* the lengths computeHeadingConfidence compares with (lines 980-982)
SHORT_LINE_LENGTH == 18
MEDIUM_LINE_LENGTH == 34
LONG_LINE_LENGTH == 48

\* n times the character c
Repeat(c, n) == [k \in 1..n |-> c]

\* 第 + numeral + primary marker + one whitespace
HeadingHeads ==
  {<<"di">> \o numeral \o <<"zhang", "sp">> : numeral \in {<<"yi">>, <<"1">>, <<"1", "0">>}}

\* titles that start with an ideograph and hold no sentence punctuation
HeadingTitles(room) ==
  {<<first>> \o Repeat(fill, n) :
     first \in {"jia", "xu", "juan", "hang"},
     fill \in {"jia", "sp", "1", "colon", "lb"},
     n \in 0..(room - 1)}

\* the lines of the form of at most SHORT_LINE_LENGTH characters that do
\* not end in whitespace
ShortHeadingLines ==
  UNION {{head \o title : title \in {t \in HeadingTitles(SHORT_LINE_LENGTH - Len(head)) :
                                       t[Len(t)] /= "sp"}} :
         head \in HeadingHeads}

\* what can stand in front of the text of a long line
DenseHeads ==
  {<<"di", "yi", "zhang">>, <<"yi", "zhang">>, <<"zhang", "1">>, <<"di", "1", "juan">>,
   <<"xu", "zhang">>, <<"jia">>}
DenseSeparators == {<<>>, <<"sp">>, <<"sp", "sp", "lb">>, <<"colon", "sp">>}

\* a line of `length` characters with `marks` sentence marks that count:
\* all but one together, the last before the `trailing` exclamation marks
\* at the end of the line, which do not count
DenseLine(head, separator, marks, trailing, length) ==
  head \o separator \o <<"jia">> \o Repeat("dou", marks - 1)
  \o Repeat("jia", length - Len(head) - Len(separator) - 1 - marks - trailing)
  \o <<"dou">> \o Repeat("bang", trailing)

DenseLines ==
  {DenseLine(head, separator, marks, trailing, length) :
     head \in DenseHeads, separator \in DenseSeparators, marks \in {4, 5},
     trailing \in {0, 2},
     length \in {MEDIUM_LINE_LENGTH + 1, LONG_LINE_LENGTH, LONG_LINE_LENGTH + 1}}

\* a line of `length` characters whose sentence marks stand in a bracketed
\* annotation in front of 第一章, with a short text after the marker
AnnotatedLine(marks, separator, title, length) ==
  <<"lb", "jia">> \o Repeat("dou", marks)
  \o Repeat("jia", length - 6 - marks - Len(separator) - Len(title))
  \o <<"rb", "di", "yi", "zhang">> \o separator \o title

AnnotatedLines ==
  {AnnotatedLine(marks, separator, title, length) :
     marks \in {4, 5}, separator \in DenseSeparators,
     title \in {<<"juan">>, <<"jia", "jia">>, <<>>},
     length \in {MEDIUM_LINE_LENGTH + 1, LONG_LINE_LENGTH, LONG_LINE_LENGTH + 1}}

\* 第一章 甲甲甲甲 alone in a corpus of 50 lines
ScenarioHeading == <<"di", "yi", "zhang", "sp", "jia", "jia", "jia", "jia">>
ScenarioCorpus == [k \in 1..50 |-> IF k = 1 THEN ScenarioHeading ELSE Body]

ScoreDocuments ==
  {<<line>> : line \in ShortHeadingLines \cup DenseLines \cup AnnotatedLines
                       \cup {CompositeLine}}
  \cup {ScenarioCorpus}

\* chapterPatterns' base confidences (lines 941, 948, 955, 962)
PATTERN_CONFIDENCES == {240, 225, 210, 190}

\* the candidate's confidence, or the confidence of the branch of the scan
\* loop the line takes without a candidate (lines 1177-1199)
ScoredConfidence(line, candidate, upperHeading) ==
  IF candidate.found
  THEN computeHeadingConfidence(line, candidate.baseConfidence, candidate.rest,
                                candidate.separator)
  ELSE IF upperHeading.found THEN computeHeadingConfidence(line, 160, <<>>, <<>>)
  ELSE computeHeadingConfidence(line, 200, <<>>, <<>>)

\* the first line of the document goes through one iteration of the scan
\* loop (lines 1172-1204), as a line of its own or as a piece of a split line
ScoreHeading ==
  /\ pc = "score"
  /\ hierarchy' = scanHeadingPatterns(lines)
  /\ \E fromComposite \in BOOLEAN :
       scored' = [done |-> TRUE, kind |-> "scan", line |-> lines[1],
                  candidate |-> matchChapterHeading(Trim(lines[1]), fromComposite,
                                                    hierarchy').found,
                  confidence |-> ScoredConfidence(Trim(lines[1]),
                                   matchChapterHeading(Trim(lines[1]), fromComposite, hierarchy'),
                                   extractUpperHeading(Trim(lines[1]), hierarchy')),
                  push |-> ScanStep(lines[1], fromComposite, hierarchy', NoHeading, 0).push,
                  chapters |-> parseChapterIndices(lines)]
  /\ pc' = "scored"
  /\ UNCHANGED <<lines, processed, i, currentHeading, chapterIndices, bookChapters,
                 usedFallbackRule, chapterBytes, chunkVars, fsVars, callVars, mainVars,
                 engineVars, downloadVars, auxVars, driverVars, result>>

\* computeHeadingConfidence for the line with the base confidence of any
\* pattern and any tail of the line as the text after the marker
ScoreTail ==
  /\ pc = "score"
  /\ \E base \in PATTERN_CONFIDENCES, from \in 1..(Len(lines[1]) + 1) :
       scored' = [done |-> TRUE, kind |-> "tail", line |-> lines[1],
                  candidate |-> TRUE,
                  confidence |-> computeHeadingConfidence(lines[1], base,
                                   Slice(lines[1], from, Len(lines[1]) + 1), <<>>),
                  push |-> <<>>, chapters |-> <<>>]
  /\ pc' = "scored"
  /\ UNCHANGED <<bookVars, chunkVars, fsVars, callVars, mainVars, engineVars, downloadVars, auxVars, driverVars, result>>

InitScore ==
  /\ lines \in ScoreDocuments
  /\ parseLog = <<>>
  /\ scored = NotScored
  /\ IdleDownload
  /\ IdleAux
  /\ IdleDriver
  /\ IdleParse
  /\ IdleChunk
  /\ IdleMain
  /\ distFiles = EmptyFiles
  /\ dataFiles = EmptyFiles
  /\ publicFiles = {}
  /\ meta = "book"
  /\ existing = NoBook
  /\ result = NoResult
  /\ pc = "score"

NextScore == ScoreHeading \/ ScoreTail

SpecScore == InitScore /\ [][NextScore]_vars

\* ------------------------------------------------------------------------
\* Specification of the download endpoint
\* (functions/api/books/[bookId]/download.ts 20-90)
\* ------------------------------------------------------------------------

MaxAssets == 3
MaxParts == 2

Assets == 1..MaxAssets

\* the asset lists an index file can hold: segments of the book, none twice
AssetLists ==
  {<<>>} \cup {q \in SeqsUpTo(Assets, MaxAssets) :
                \A a, b \in 1..Len(q) : q[a] = q[b] => a = b}

\* the statuses of an answer that is not ok
FAILURE_STATUSES == {404, 500}

\* what env.ASSETS.fetch(chaptersUrl) does: it throws, it answers with a
\* status that is not ok, or it answers with the index file
Upstreams ==
  {[kind |-> "throws"]}
  \cup {[kind |-> "status", status |-> st] : st \in FAILURE_STATUSES}
  \cup {[kind |-> "ok", assets |-> q] : q \in AssetLists}

\* the body of a segment: the parts its stream delivers, in order; segments
\* differ in their number of parts, and one of them is empty
SegmentBody(asset) ==
  [k \in 1..(asset % (MaxParts + 1)) |-> [asset |-> asset, part |-> k]]

JsonResponse(status) == [status |-> status, body |-> "json"]

\* lines 21-27
MissingBookId ==
  /\ pc = "request"
  /\ paramsBookId = ""
  /\ response' = JsonResponse(400)
  /\ pc' = "responded"
  /\ UNCHANGED <<bookVars, chunkVars, fsVars, callVars, mainVars, engineVars, scoreVars,
                 driverVars, auxVars,
                 paramsBookId, chaptersResponse, segmentPaths, pipeIndex, streamer, piping, written,
                 writable, result>>

\* lines 31 and 83-88: the fetch of the index file throws
ChaptersFetchThrows ==
  /\ pc = "request"
  /\ paramsBookId /= ""
  /\ chaptersResponse.kind = "throws"
  /\ response' = JsonResponse(500)
  /\ pc' = "responded"
  /\ UNCHANGED <<bookVars, chunkVars, fsVars, callVars, mainVars, engineVars, scoreVars,
                 driverVars, auxVars,
                 paramsBookId, chaptersResponse, segmentPaths, pipeIndex, streamer, piping, written,
                 writable, result>>

\* lines 32-37
ChaptersNotOk ==
  /\ pc = "request"
  /\ paramsBookId /= ""
  /\ chaptersResponse.kind = "status"
  /\ response' = JsonResponse(chaptersResponse.status)
  /\ pc' = "responded"
  /\ UNCHANGED <<bookVars, chunkVars, fsVars, callVars, mainVars, engineVars, scoreVars,
                 driverVars, auxVars,
                 paramsBookId, chaptersResponse, segmentPaths, pipeIndex, streamer, piping, written,
                 writable, result>>

\* lines 39-47
NoContent ==
  /\ pc = "request"
  /\ paramsBookId /= ""
  /\ chaptersResponse.kind = "ok"
  /\ Len(chaptersResponse.assets) = 0
  /\ segmentPaths' = chaptersResponse.assets
  /\ response' = JsonResponse(404)
  /\ pc' = "responded"
  /\ UNCHANGED <<bookVars, chunkVars, fsVars, callVars, mainVars, engineVars, scoreVars,
                 driverVars, auxVars,
                 paramsBookId, chaptersResponse, pipeIndex, streamer, piping, written, writable, result>>

\* lines 39-82: the stream is created, the piping task starts and runs up to
\* its first fetch, and the readable side is returned as the body
StartStream ==
  /\ pc = "request"
  /\ paramsBookId /= ""
  /\ chaptersResponse.kind = "ok"
  /\ Len(chaptersResponse.assets) > 0
  /\ segmentPaths' = chaptersResponse.assets
  /\ writable' = "open"
  /\ pipeIndex' = 0
  /\ streamer' = "fetch"
  /\ response' = [status |-> 200, body |-> "readable"]
  /\ pc' = "responded"
  /\ UNCHANGED <<bookVars, chunkVars, fsVars, callVars, mainVars, engineVars, scoreVars,
                 driverVars, auxVars,
                 paramsBookId, chaptersResponse, piping, written, result>>

\* what the fetch of a segment does
ASSET_OUTCOMES == {"ok", "notOk", "noBody", "throws"}

\* writable.abort(streamError) (line 63): a stream that is closed stays closed
Abort(state) == IF state = "closed" THEN "closed" ELSE "errored"

\* lines 54-59 and 62-64
FetchAsset ==
  /\ streamer = "fetch"
  /\ pipeIndex < Len(segmentPaths)
  /\ \E outcome \in ASSET_OUTCOMES :
       IF outcome = "ok"
       THEN /\ piping' = SegmentBody(segmentPaths[pipeIndex + 1])
            /\ streamer' = "pipe"
            /\ UNCHANGED writable
       ELSE /\ writable' = Abort(writable)
            /\ streamer' = "aborted"
            /\ UNCHANGED piping
  /\ UNCHANGED <<bookVars, chunkVars, fsVars, callVars, mainVars, engineVars, scoreVars,
                 driverVars, auxVars,
                 paramsBookId, chaptersResponse, response, segmentPaths, pipeIndex, written, result, pc>>

\* line 60: pipeTo moves the next part of the segment to the writable side
PipePart ==
  /\ streamer = "pipe"
  /\ writable = "open"
  /\ Len(piping) > 0
  /\ written' = Append(written, Head(piping))
  /\ piping' = Tail(piping)
  /\ UNCHANGED <<bookVars, chunkVars, fsVars, callVars, mainVars, engineVars, scoreVars,
                 driverVars, auxVars,
                 paramsBookId, chaptersResponse, response, segmentPaths, pipeIndex, streamer, writable,
                 result, pc>>

\* a pipe that closes the writable side after every segment
CloseAfterEverySegment(index, length) == FALSE

\* the option preventClose of line 60
preventClose(index, length) == index /= length - 1

\* lines 53 and 60: the segment is exhausted, pipeTo closes the writable
\* side unless preventClose is set and resolves, and the loop goes on
PipeDone ==
  /\ streamer = "pipe"
  /\ writable = "open"
  /\ Len(piping) = 0
  /\ writable' = IF preventClose(pipeIndex, Len(segmentPaths)) THEN writable ELSE "closed"
  /\ pipeIndex' = pipeIndex + 1
  /\ streamer' = IF pipeIndex + 1 < Len(segmentPaths) THEN "fetch" ELSE "finished"
  /\ UNCHANGED <<bookVars, chunkVars, fsVars, callVars, mainVars, engineVars, scoreVars,
                 driverVars, auxVars,
                 paramsBookId, chaptersResponse, response, segmentPaths, piping, written, result, pc>>

\* lines 60 and 62-64: pipeTo rejects (the segment's stream fails, the
\* reader of the body goes away, or the writable side is closed already)
PipeFails ==
  /\ streamer = "pipe"
  /\ writable' = Abort(writable)
  /\ streamer' = "aborted"
  /\ UNCHANGED <<bookVars, chunkVars, fsVars, callVars, mainVars, engineVars, scoreVars,
                 driverVars, auxVars,
                 paramsBookId, chaptersResponse, response, segmentPaths, pipeIndex, piping, written,
                 result, pc>>

InitDownload ==
  /\ paramsBookId \in {"", "book"}
  /\ chaptersResponse \in Upstreams
  /\ response = NoResponse
  /\ segmentPaths = <<>>
  /\ pipeIndex = 0
  /\ streamer = "none"
  /\ piping = <<>>
  /\ written = <<>>
  /\ writable = "none"
  /\ parseLog = <<>>
  /\ scored = NotScored
  /\ IdleDriver
  /\ IdleAux
  /\ lines = <<>>
  /\ IdleParse
  /\ IdleChunk
  /\ IdleMain
  /\ distFiles = EmptyFiles
  /\ dataFiles = EmptyFiles
  /\ publicFiles = {}
  /\ meta = "book"
  /\ existing = NoBook
  /\ result = NoResult
  /\ pc = "request"

NextDownload ==
  \/ MissingBookId
  \/ ChaptersFetchThrows
  \/ ChaptersNotOk
  \/ NoContent
  \/ StartStream
  \/ FetchAsset
  \/ PipePart
  \/ PipeDone
  \/ PipeFails

SpecDownload == InitDownload /\ [][NextDownload]_vars

\* ------------------------------------------------------------------------
\* Specification of scanHeadingPatterns on corpora with many headings
\* ------------------------------------------------------------------------

\* the largest number of volume headings of a corpus
MaxUpperCount == 52

\* 第一节 甲
SectionLine == <<"di", "yi", "jie", "sp", "jia">>
\* 第一部 甲
PartLine == <<"di", "yi", "bu", "sp", "jia">>

\* the lines that stand between the first volume headings and the others
Middles ==
  {<<>>, <<Body>>, <<ChapterLine>>, <<SectionLine>>, <<ChapterLine, SectionLine>>,
   <<SectionLine, Body, ChapterLine, ChapterLine>>, <<PartLine, ChapterLine>>}

\* `before` volume headings, the middle lines, then the other volume headings
\* up to `count`, behind an optional first line
Corpus(first, before, middle, count) ==
  first \o Repeat(VolumeLine, before) \o middle \o Repeat(VolumeLine, count - before)

\* corpora with volume headings around the count of 50 and with a share of
\* them in front of the middle lines around 30% and around 15%
Corpora ==
  {Corpus(first, before, middle, count) :
     first \in {<<>>, <<ChapterLine>>},
     before \in {0, 7, 8, 15, 16, 50},
     middle \in Middles,
     count \in {50, 51, MaxUpperCount}}

\* line 873: const hierarchy = scanHeadingPatterns(lines)
ScanPatterns ==
  /\ pc = "vocabulary"
  /\ hierarchy' = scanHeadingPatterns(lines)
  /\ pc' = "matching"
  /\ UNCHANGED <<extVars, mainVars, lines, processed, i, currentHeading, chapterIndices,
                 bookChapters, usedFallbackRule, chapterBytes, chunkVars, fsVars, callVars,
                 result>>

InitVocabulary ==
  /\ IdleExt
  /\ lines \in Corpora
  /\ IdleParse
  /\ IdleChunk
  /\ IdleMain
  /\ distFiles = EmptyFiles
  /\ dataFiles = EmptyFiles
  /\ publicFiles = {}
  /\ meta = "book"
  /\ existing = NoBook
  /\ result = NoResult
  /\ pc = "vocabulary"

NextVocabulary == ScanPatterns

SpecVocabulary == InitVocabulary /\ [][NextVocabulary]_vars

\* ------------------------------------------------------------------------
\* SimpleReaderPage: the byte window of the reader and its scroll handler
\* ------------------------------------------------------------------------

\* book sizes and saved positions are multiples of half a chunk, up to
\* MaxHalfChunks of them
MaxHalfChunks == 10

CHUNK_SIZE == 100000
MAX_CHUNKS == 3

Max(a, b) == IF a > b THEN a ELSE b

BytePositions == {k * (CHUNK_SIZE \div 2) : k \in 0..MaxHalfChunks}

\* Math.ceil((viewEnd - viewStart) / CHUNK_SIZE)
currentChunks(start, end) == (end - start + CHUNK_SIZE - 1) \div CHUNK_SIZE

\* useBook answers (line 15)
BookLoaded ==
  /\ pc = "reader"
  /\ book = BookNotLoaded
  /\ \E totalSize \in BytePositions \ {0} : book' = [totalSize |-> totalSize]
  /\ UNCHANGED <<callerVars, rescanVars, extractVars, webVars, progress, viewStart, viewEnd, isInitialized, isLoadingMore,
                 handleScroll, pc>>

\* lines 27-50: the effect that restores the reading position, once per book;
\* getBookProgress gives a position saved in this book, or nothing (0)
Restore ==
  /\ pc = "reader"
  /\ book /= BookNotLoaded
  /\ ~isInitialized
  /\ \E scrollPosition \in {b \in BytePositions : b <= book.totalSize} :
       /\ progress' = scrollPosition
       /\ IF scrollPosition /= 0
          THEN /\ viewStart' = Max(0, scrollPosition - CHUNK_SIZE)
               /\ viewEnd' = Min(scrollPosition + CHUNK_SIZE, book.totalSize)
          ELSE /\ viewStart' = 0
               /\ viewEnd' = CHUNK_SIZE
  /\ isInitialized' = TRUE
  /\ UNCHANGED <<callerVars, rescanVars, extractVars, webVars, book, isLoadingMore, handleScroll, pc>>

\* the component renders again after a state change: useCallback makes a new
\* handleScroll and the effect of lines 195-201 puts it in place of the old one
Render ==
  /\ pc = "reader"
  /\ handleScroll /= Rendered(viewStart, viewEnd, book, isLoadingMore)
  /\ handleScroll' = Rendered(viewStart, viewEnd, book, isLoadingMore)
  /\ UNCHANGED <<callerVars, rescanVars, extractVars, webVars, book, progress, viewStart, viewEnd, isInitialized,
                 isLoadingMore, pc>>

\* lines 134-153: the branch that extends the window downwards
LoadsBelow(closure, nearBottom) ==
  /\ nearBottom
  /\ closure.viewEnd < closure.book.totalSize
  /\ ~closure.isLoadingMore
  /\ Min(closure.viewEnd + CHUNK_SIZE, closure.book.totalSize) > closure.viewEnd

\* lines 156-191: the branch that extends the window upwards
LoadsAbove(closure, nearTop) ==
  /\ nearTop
  /\ closure.viewStart > 0
  /\ ~closure.isLoadingMore

\* what the setViewStart calls of one run of the handler leave (the last call
\* wins): line 149 in the first branch, line 171 in the second
NextViewStart(closure, nearBottom, nearTop, current) ==
  IF LoadsAbove(closure, nearTop)
  THEN Max(0, closure.viewStart - CHUNK_SIZE)
  ELSE IF /\ LoadsBelow(closure, nearBottom)
          /\ currentChunks(closure.viewStart, closure.viewEnd) >= MAX_CHUNKS
       THEN closure.viewStart + CHUNK_SIZE
       ELSE current

\* what the setViewEnd calls of one run of the handler leave: line 144 in the
\* first branch, line 176 in the second
NextViewEnd(closure, nearBottom, nearTop, current) ==
  IF /\ LoadsAbove(closure, nearTop)
     /\ currentChunks(closure.viewStart, closure.viewEnd) >= MAX_CHUNKS
  THEN closure.viewEnd - CHUNK_SIZE
  ELSE IF LoadsBelow(closure, nearBottom)
       THEN Min(closure.viewEnd + CHUNK_SIZE, closure.book.totalSize)
       ELSE current

\* lines 123-193: one scroll event; the two proximity tests are what the
\* scroll geometry of the moment gives
HandleScroll ==
  /\ pc = "reader"
  /\ handleScroll.book /= BookNotLoaded
  /\ \E nearBottom \in BOOLEAN, nearTop \in BOOLEAN :
       /\ LoadsBelow(handleScroll, nearBottom) \/ LoadsAbove(handleScroll, nearTop)
       /\ viewStart' = NextViewStart(handleScroll, nearBottom, nearTop, viewStart)
       /\ viewEnd' = NextViewEnd(handleScroll, nearBottom, nearTop, viewEnd)
       /\ isLoadingMore' = TRUE
  /\ UNCHANGED <<callerVars, rescanVars, extractVars, webVars, book, progress, isInitialized, handleScroll, pc>>

\* line 152 (the timer of 300 ms) and line 189 (the animation frame)
LoadingDone ==
  /\ pc = "reader"
  /\ isLoadingMore
  /\ isLoadingMore' = FALSE
  /\ UNCHANGED <<callerVars, rescanVars, extractVars, webVars, book, progress, viewStart, viewEnd, isInitialized,
                 handleScroll, pc>>

\* lines 15-21: the page is mounted, the book is not there yet
InitReader ==
  /\ IdleParse
  /\ IdleChunk
  /\ IdleMain
  /\ parseLog = <<>>
  /\ scored = NotScored
  /\ IdleDownload
  /\ IdleDriver
  /\ IdleRescan
  /\ IdleExtract
  /\ IdleWeb
  /\ book = BookNotLoaded
  /\ progress = 0
  /\ viewStart = 0
  /\ viewEnd = CHUNK_SIZE
  /\ isInitialized = FALSE
  /\ isLoadingMore = FALSE
  /\ handleScroll = Rendered(0, CHUNK_SIZE, BookNotLoaded, FALSE)
  /\ lines = <<>>
  /\ distFiles = EmptyFiles
  /\ dataFiles = EmptyFiles
  /\ publicFiles = {}
  /\ meta = "book"
  /\ existing = NoBook
  /\ result = NoResult
  /\ pc = "reader"

NextReader == BookLoaded \/ Restore \/ Render \/ HandleScroll \/ LoadingDone

SpecReader == InitReader /\ [][NextReader]_vars

\* ------------------------------------------------------------------------
\* The fallback scanner between two runs of preprocess (part_002, 69-146)
\* ------------------------------------------------------------------------

\* the elements of a list
Range(list) == {list[k] : k \in 1..Len(list)}

\* 第1章 第1-300行: a line of a text that has the shape of a fallback title
FallbackShapedLine == FallbackTitle(1, 0, LINES_PER_CHAPTER)

\* what the archives hold: texts without a heading (too short for the fallback
\* rule, and just long enough for it) and texts with headings
RescanTexts ==
  {Padded(Body, Body, MIN_FALLBACK_LINES - 1),
   Padded(Body, Body, MIN_FALLBACK_LINES),
   Padded(Body, Blank, MIN_FALLBACK_LINES + 1),
   Padded(ChapterLine, Body, MIN_FALLBACK_LINES),
   Padded(FallbackShapedLine, Body, MIN_FALLBACK_LINES),
   <<ScenarioVolume, Body, ScenarioChapter>>}

\* lines 1340-1376: the chapters processBook writes for a text, none when it
\* returns at line 1356
ChaptersOfText(text) ==
  LET detected == parseChapterIndices(text)
  IN IF Len(detected) > 0 THEN [written |-> TRUE, fallback |-> FALSE, chapters |-> detected]
     ELSE IF IsTooSmall(Len(text)) THEN [written |-> FALSE, fallback |-> FALSE, chapters |-> <<>>]
     ELSE [written |-> TRUE, fallback |-> TRUE, chapters |-> FallbackRanges(Len(text))]

\* lines 1441-1481: the index file, as far as the scanner reads it:
\* book.id and, per chapter, the title (entry [1] of the compact chapter)
TitledPayload(id, chapters) ==
  [book |-> [id |-> id],
   chapters |-> [k \in 1..Len(chapters) |-> [title |-> Trim(chapters[k].title)]]]

\* one book of a finished run of preprocess: processBook on its text, its
\* entry saved in the manifest (lines 1601-1625, 1672)
ProcessLibraryBook ==
  /\ pc = "library"
  /\ batchI < Cardinality(DOMAIN sourceFiles)
  /\ LET b == batchI + 1
         outcome == ChaptersOfText(sourceFiles[b])
     IN IF outcome.written
        THEN /\ dataFiles' = Put(dataFiles, b, TitledPayload(b, outcome.chapters))
             /\ manifestFile' = Put(manifestFile, b,
                                    [present |-> TRUE, hash |-> "new",
                                     totalChapters |-> Len(outcome.chapters),
                                     assets |-> <<1>>])
             /\ usedFallbackBooks' = IF outcome.fallback
                                     THEN usedFallbackBooks \cup {b}
                                     ELSE usedFallbackBooks \ {b}
        ELSE UNCHANGED <<dataFiles, manifestFile, usedFallbackBooks>>
  /\ batchI' = batchI + 1
  /\ UNCHANGED <<bookVars, chunkVars, callVars, engineVars, scoreVars, downloadVars,
                 driverVars, readerVars, extractVars, webVars, result, distFiles, publicFiles, sourceFiles,
                 pendingFile, booksJson, BATCH_SIZE, manifest, nextManifest, booksToProcess,
                 fallbackBookIds, pc>>

\* /^第\d+章 第\d+-\d+行$/.test(title)
fallbackPattern(title) ==
  LET afterDi == 2
      afterNum == SkipSet(title, afterDi, DIGITS)
      afterFrom == SkipSet(title, afterNum + 3, DIGITS)
      afterTo == SkipSet(title, afterFrom + 1, DIGITS)
  IN /\ Len(title) >= 1 /\ title[1] = "di"
     /\ afterNum > afterDi
     /\ Len(title) >= afterNum + 2
     /\ title[afterNum] = "zhang" /\ title[afterNum + 1] = "sp" /\ title[afterNum + 2] = "di"
     /\ afterFrom > afterNum + 3
     /\ Len(title) >= afterFrom /\ title[afterFrom] = "-"
     /\ afterTo > afterFrom + 1
     /\ Len(title) = afterTo /\ title[afterTo] = "hang"

\* lines 97-112: the books whose first chapter title has the fallback shape,
\* in the order readdir lists the index files
FoundFallbackBooks(files) ==
  LET order == ScanOrder(DOMAIN files)
  IN SelectSeq(order, LAMBDA b : /\ Len(files[b].chapters) > 0
                                 /\ fallbackPattern(files[b].chapters[1].title))

\* lines 69-144: one run of the scanner; the books found are deleted from
\* manifest.books when they are there, and the manifest is saved
RunScanner ==
  /\ pc = "library"
  /\ batchI = Cardinality(DOMAIN sourceFiles)
  /\ fallbackBookIds' = FoundFallbackBooks(dataFiles)
  /\ manifestFile' = [b \in (DOMAIN manifestFile) \ Range(fallbackBookIds') |-> manifestFile[b]]
  /\ batchI' = 0
  /\ pc' = "main"
  /\ UNCHANGED <<bookVars, chunkVars, callVars, engineVars, scoreVars, downloadVars,
                 driverVars, readerVars, extractVars, webVars, result, fsVars, sourceFiles, pendingFile, booksJson,
                 BATCH_SIZE, manifest, nextManifest, booksToProcess, usedFallbackBooks>>

\* the archives are in sourceRar, nothing has been processed yet
InitRescan ==
  /\ IdleParse
  /\ IdleChunk
  /\ lines = <<>>
  /\ parseLog = <<>>
  /\ scored = NotScored
  /\ IdleDownload
  /\ IdleDriver
  /\ IdleReader
  /\ IdleRescan
  /\ IdleExtract
  /\ IdleWeb
  /\ sourceFiles \in [Books -> RescanTexts]
  /\ manifestFile = EmptyFiles
  /\ pendingFile = NoPendingFile
  /\ booksJson = NotWritten
  /\ BATCH_SIZE = MaxBatchSize
  /\ manifest = EmptyFiles
  /\ nextManifest = EmptyFiles
  /\ booksToProcess = <<>>
  /\ batchI = 0
  /\ distFiles = EmptyFiles
  /\ dataFiles = EmptyFiles
  /\ publicFiles = {}
  /\ meta = "book"
  /\ existing = NoBook
  /\ result = NoResult
  /\ pc = "library"

NextRescan == ProcessLibraryBook \/ RunScanner \/ MainStart

SpecRescan == InitRescan /\ [][NextRescan]_vars

\* ------------------------------------------------------------------------
\* decodeTxtFromRar: the names of the extracted entries (preprocess.ts
\* 1227-1258)
\* ------------------------------------------------------------------------

\* the calls of filenameTransform during one extraction
MaxEntries == 3

\* entry names; "dottxt" stands for the four characters .txt, "bsl" for the
\* backslash, "entry" for the five characters of that word
EntryNames ==
  {<<"o", "dottxt">>,
   <<"k", "/", "o", "dottxt">>,
   <<"k", "bsl", "o", "dottxt">>,
   <<"o", "dottxt", "_", "1">>,
   <<"o", "dottxt", "_", "2">>,
   <<"o", "_", "1", "dottxt">>,
   <<"o", "sp", "dottxt">>,
   <<"o", "_", "dottxt">>,
   <<"o", "dottxt", "_", "1", "dottxt">>,
   <<"/">>,
   <<"dot", "dot">>}

\* [a-zA-Z0-9\u4e00-\u9fa5._-]
SAFE_CHARS == {"o", "k", "jia", "dot", "_", "-", "dottxt", "entry"} \cup DIGITS

\* start of the last path segment that is kept: after the last separator
\* that is followed by a segment other than "", "." and ".."
RECURSIVE LastSegment(_, _)
\* the segments of name[1..end], the last kept one (<<>> if none)
LastSegment(name, end) ==
  LET isSeparator(k) == name[k] \in {"/", "bsl"}
      start == IF \E k \in 1..end : isSeparator(k)
               THEN (CHOOSE k \in 1..end :
                       isSeparator(k) /\ \A j \in (k + 1)..end : ~isSeparator(j)) + 1
               ELSE 1
      segment == SubSeq(name, start, end)
  IN IF segment /= <<>> /\ segment /= <<"dot">> /\ segment /= <<"dot", "dot">>
     THEN segment
     ELSE IF start = 1 THEN <<>> ELSE LastSegment(name, start - 2)

RECURSIVE ReplaceUnsafe(_, _)
\* replace(/[^a-zA-Z0-9\u4e00-\u9fa5._-]+/g, "_") from position p on
ReplaceUnsafe(name, p) ==
  IF p > Len(name) THEN <<>>
  ELSE IF name[p] \in SAFE_CHARS THEN <<name[p]>> \o ReplaceUnsafe(name, p + 1)
  ELSE <<"_">> \o ReplaceUnsafe(name, SkipSet(name, p, {"sp", "/", "bsl", "colon"}))

\* `entry_${nameMap.size}`
EntryDefault(size) == <<"entry", "_">> \o Decimal(size)

\* lines 1233-1238: normalized and safeBase
SafeBase(entry, size) ==
  LET segment == LastSegment(entry, Len(entry))
      normalized == IF segment = <<>> THEN EntryDefault(size) ELSE segment
      replaced == ReplaceUnsafe(normalized, 1)
  IN IF replaced = <<>> THEN EntryDefault(size) ELSE replaced

\* a repeated name returned as it is
SameName(safeBase, count) == safeBase

\* line 1244: `${safeBase}_${count}`
Candidate(safeBase, count) == safeBase \o <<"_">> \o Decimal(count)

\* lines 1232-1247: what allocateName returns
allocateName(entry, names, used) ==
  LET safeBase == SafeBase(entry, Cardinality(DOMAIN names))
  IN IF safeBase \notin DOMAIN used THEN safeBase ELSE Candidate(safeBase, used[safeBase])

\* lines 1239-1245: usedNames after the call
UsedAfter(entry, names, used) ==
  LET safeBase == SafeBase(entry, Cardinality(DOMAIN names))
  IN IF safeBase \notin DOMAIN used THEN Put(used, safeBase, 1)
     ELSE Put(used, safeBase, used[safeBase] + 1)

\* lines 1253-1257: the extractor asks for the target name of an entry
FilenameTransform ==
  /\ pc = "extract"
  /\ Len(allocated) < MaxEntries
  /\ \E filename \in EntryNames :
       /\ nameMap' = Put(nameMap, filename, allocateName(filename, nameMap, usedNames))
       /\ usedNames' = UsedAfter(filename, nameMap, usedNames)
       /\ allocated' = Append(allocated,
                               [entry |-> filename,
                                name |-> allocateName(filename, nameMap, usedNames)])
  /\ UNCHANGED <<callerVars, readerVars, rescanVars, webVars, pc>>

\* lines 1228-1230: temporary directory made, both maps empty
InitExtract ==
  /\ IdleParse
  /\ IdleChunk
  /\ IdleMain
  /\ lines = <<>>
  /\ parseLog = <<>>
  /\ scored = NotScored
  /\ IdleDownload
  /\ IdleDriver
  /\ IdleReader
  /\ IdleRescan
  /\ IdleExtract
  /\ IdleWeb
  /\ distFiles = EmptyFiles
  /\ dataFiles = EmptyFiles
  /\ publicFiles = {}
  /\ meta = "book"
  /\ existing = NoBook
  /\ result = NoResult
  /\ pc = "extract"

NextExtract == FilenameTransform

SpecExtract == InitExtract /\ [][NextExtract]_vars

\* ------------------------------------------------------------------------
\* useBookContent: a byte range of the book read from its part files
\* ------------------------------------------------------------------------

MaxContentParts == 3
MaxPartSize == 2

RECURSIVE SumOfSizes(_)
SumOfSizes(sizes) ==
  IF Len(sizes) = 0 THEN 0 ELSE sizes[1] + SumOfSizes(Tail(sizes))

\* book.parts of the index file: path and size of each part file
PartsOf(sizes) == [p \in 1..Len(sizes) |-> [path |-> p, size |-> sizes[p]]]

\* the global position of the first byte of part p
PartOffset(parts, p) == SumOfSizes([k \in 1..(p - 1) |-> parts[k].size])

\* the part file: each byte is written as its global position in the book
PartFile(parts, p) == [o \in 1..parts[p].size |-> PartOffset(parts, p) + o - 1]

\* Uint8Array.slice(from, to), 0 <= from
ByteSlice(buffer, from, to) ==
  [k \in 1..(Min(to, Len(buffer)) - Min(from, Len(buffer))) |-> buffer[from + k]]

\* fetch(part.path, {headers: {Range: `bytes=${rangeStart}-${rangeEnd}`}}):
\* a server that honours the header answers 206 with the bytes of the range
\* that exist, or 416 when none exists; a server that ignores it, or a header
\* whose end is below its start, gives 200 and the whole file
Fetch(file, rangeStart, rangeEnd, acceptsRanges) ==
  IF acceptsRanges /\ rangeStart <= rangeEnd
    THEN IF rangeStart >= Len(file)
           THEN [status |-> 416, body |-> <<>>]
           ELSE [status |-> 206, body |-> ByteSlice(file, rangeStart, rangeEnd + 1)]
    ELSE [status |-> 200, body |-> file]

\* response.ok
Ok(response_) == response_.status >= 200 /\ response_.status <= 299

\* the whole remainder asked of one part
WholeRemainder(remainingLength, size, offsetInPart) == remainingLength

\* line 74 of part_017: bytesToRead
BytesToRead(remainingLength, size, offsetInPart) ==
  Min(remainingLength, size - offsetInPart)

\* line 73 of part_017: offsetInPart
OffsetInPart(remainingStart, currentByte) == Max(0, remainingStart - currentByte)

\* lines 89-92 of part_017: the buffer pushed to chunks
BufferOf(response_, rangeStart, bytesToRead) ==
  IF response_.status # 206 /\ response_.status # 416
    THEN ByteSlice(response_.body, rangeStart, rangeStart + bytesToRead)
    ELSE response_.body

RECURSIVE MergeChunks(_)
\* lines 107-114 of part_017: merged
MergeChunks(chunks) ==
  IF Len(chunks) = 0 THEN <<>> ELSE chunks[1] \o MergeChunks(Tail(chunks))

\* lines 52-67 of part_017: the range is cut at totalSize; nothing to read
\* gives the empty string
QueryFn ==
  /\ pc = "query"
  /\ LET endByte == Min(contentQuery.startByte + contentQuery.length,
                        contentQuery.totalSize)
         actualLength == endByte - contentQuery.startByte
     IN IF actualLength <= 0
          THEN /\ contentResult' = [state |-> "text", merged |-> <<>>]
               /\ pc' = "content"
               /\ UNCHANGED contentLoop
          ELSE /\ contentLoop' = [k |-> 0, currentByte |-> 0,
                                   remainingStart |-> contentQuery.startByte,
                                   remainingLength |-> actualLength]
               /\ pc' = "parts"
               /\ UNCHANGED contentResult
  /\ UNCHANGED <<callerVars, readerVars, rescanVars, extractVars, historyVars,
                 contentQuery, rangeRequests, contentChunks>>

\* line 72 of part_017: this part holds bytes that are wanted
HoldsWanted(loop, part) ==
  loop.remainingStart < loop.currentByte + part.size /\ loop.remainingLength > 0

\* lines 69-105 of part_017: an iteration that reads from the part
FetchPart ==
  /\ pc = "parts"
  /\ contentLoop.k < Len(contentQuery.parts)
  /\ contentLoop.remainingLength > 0
  /\ LET part == contentQuery.parts[contentLoop.k + 1]
         partEnd == contentLoop.currentByte + part.size
         offsetInPart == OffsetInPart(contentLoop.remainingStart, contentLoop.currentByte)
         bytesToRead == BytesToRead(contentLoop.remainingLength, part.size, offsetInPart)
         rangeStart == offsetInPart
         rangeEnd == offsetInPart + bytesToRead - 1
     IN /\ HoldsWanted(contentLoop, part)
        /\ \E acceptsRanges \in BOOLEAN :
             LET response_ == Fetch(PartFile(contentQuery.parts, contentLoop.k + 1),
                                    rangeStart, rangeEnd, acceptsRanges)
             IN /\ rangeRequests' = Append(rangeRequests,
                                            [part |-> contentLoop.k + 1,
                                             rangeStart |-> rangeStart,
                                             rangeEnd |-> rangeEnd])
                /\ IF ~Ok(response_)
                     THEN /\ contentResult' = [state |-> "error", merged |-> <<>>]
                          /\ pc' = "content"
                          /\ UNCHANGED <<contentLoop, contentChunks>>
                     ELSE /\ contentChunks' =
                               Append(contentChunks,
                                      BufferOf(response_, rangeStart, bytesToRead))
                          /\ contentLoop' =
                               [k |-> contentLoop.k + 1,
                                currentByte |-> partEnd,
                                remainingStart |-> partEnd,
                                remainingLength |-> contentLoop.remainingLength - bytesToRead]
                          /\ UNCHANGED <<contentResult, pc>>
  /\ UNCHANGED <<callerVars, readerVars, rescanVars, extractVars, historyVars,
                 contentQuery>>

\* lines 69-105 of part_017: an iteration over a part in front of the range
SkipPart ==
  /\ pc = "parts"
  /\ contentLoop.k < Len(contentQuery.parts)
  /\ contentLoop.remainingLength > 0
  /\ ~HoldsWanted(contentLoop, contentQuery.parts[contentLoop.k + 1])
  /\ contentLoop' =
       [contentLoop EXCEPT !.k = @ + 1,
                           !.currentByte = @ + contentQuery.parts[contentLoop.k + 1].size]
  /\ UNCHANGED <<callerVars, readerVars, rescanVars, extractVars, historyVars,
                 contentQuery, rangeRequests, contentChunks, contentResult, pc>>

\* lines 102-121 of part_017: the loop is left, the chunks are merged and
\* decoded
MergeContent ==
  /\ pc = "parts"
  /\ contentLoop.k = Len(contentQuery.parts) \/ contentLoop.remainingLength <= 0
  /\ contentResult' = [state |-> "text", merged |-> MergeChunks(contentChunks)]
  /\ pc' = "content"
  /\ UNCHANGED <<callerVars, readerVars, rescanVars, extractVars, historyVars,
                 contentQuery, contentLoop, rangeRequests, contentChunks>>

\* the sizes of the parts of a book
PartSizes == UNION {[1..n -> 0..MaxPartSize] : n \in 0..MaxContentParts}

\* the queries react-query runs: startByte >= 0 and length > 0 (line 44)
Queries ==
  {[parts |-> PartsOf(sizes), totalSize |-> SumOfSizes(sizes),
    startByte |-> startByte, length |-> length_] :
     sizes \in PartSizes,
     startByte \in 0..(MaxContentParts * MaxPartSize + 1),
     length_ \in 1..(MaxContentParts * MaxPartSize + 1)}

InitContent ==
  /\ IdleParse
  /\ IdleChunk
  /\ IdleMain
  /\ lines = <<>>
  /\ parseLog = <<>>
  /\ scored = NotScored
  /\ IdleDownload
  /\ IdleDriver
  /\ IdleReader
  /\ IdleRescan
  /\ IdleExtract
  /\ IdleHistory
  /\ contentQuery \in Queries
  /\ contentLoop = NoLoop
  /\ rangeRequests = <<>>
  /\ contentChunks = <<>>
  /\ contentResult = NoContentResult
  /\ distFiles = EmptyFiles
  /\ dataFiles = EmptyFiles
  /\ publicFiles = {}
  /\ meta = "book"
  /\ existing = NoBook
  /\ result = NoResult
  /\ pc = "query"

NextContent == QueryFn \/ FetchPart \/ SkipPart \/ MergeContent

SpecContent == InitContent /\ [][NextContent]_vars

\* ------------------------------------------------------------------------
\* The reading history in localStorage
\* ------------------------------------------------------------------------

HISTORY_LIMIT == 20
MaxHistoryBooks == 22
MaxClock == 1

\* readEntries: no item gives no entries; the entries writeEntries stored are
\* objects with a bookId, a chapterId and a numeric updatedAt and pass the filter
readEntries(item) == IF item.present THEN item.entries ELSE <<>>

\* every entry kept
KeepAll(list, bookId) == list

\* line 59 of part_004: .filter((item) => item.bookId !== entry.bookId)
WithoutBook(list, bookId) == SelectSeq(list, LAMBDA item : item.bookId # bookId)

\* Array.slice(0, n)
FirstEntries(list, n) == SubSeq(list, 1, Min(n, Len(list)))

\* lines 59-60 of part_004: nextEntries
NextEntries(entry, item, now_) ==
  FirstEntries(<<[bookId |-> entry.bookId, chapterId |-> entry.chapterId,
                  updatedAt |-> now_]>>
                 \o WithoutBook(readEntries(item), entry.bookId),
               HISTORY_LIMIT)

\* the book that has not been saved yet: books are opened in the order 1, 2, ...
UnreadBook ==
  LET ids == {readEntries(localStorage)[k].bookId :
                k \in 1..Len(readEntries(localStorage))}
  IN IF ids = {} THEN 1 ELSE 1 + CHOOSE b \in ids : \A c \in ids : c <= b

\* the entries the pages save: a book opened for the first time, at its
\* first chapter, or book 1 again, at its first or second chapter
SaveInputs ==
  {[bookId |-> b, chapterId |-> 1] : b \in {UnreadBook} \cap 1..MaxHistoryBooks}
  \cup {[bookId |-> 1, chapterId |-> c] : c \in 1..2}

\* lines 57-63 of part_004: saveReadingProgress
SaveReadingProgress ==
  /\ pc = "history"
  /\ \E entry \in SaveInputs :
       /\ localStorage' = [present |-> TRUE,
                            entries |-> NextEntries(entry, localStorage, dateNow)]
       /\ savedEntry' = entry
  /\ UNCHANGED <<callerVars, readerVars, rescanVars, extractVars, contentVars,
                 dateNow, pc>>

\* lines 65-69 of part_004: localStorage.removeItem(STORAGE_KEY)
ClearReadingProgress ==
  /\ pc = "history"
  /\ localStorage' = NoItem
  /\ UNCHANGED <<callerVars, readerVars, rescanVars, extractVars, contentVars,
                 dateNow, savedEntry, pc>>

\* time passes between two calls
ClockTick ==
  /\ pc = "history"
  /\ dateNow < MaxClock
  /\ dateNow' = dateNow + 1
  /\ UNCHANGED <<callerVars, readerVars, rescanVars, extractVars, contentVars,
                 localStorage, savedEntry, pc>>

\* a browser that has never stored reading progress
InitHistory ==
  /\ IdleParse
  /\ IdleChunk
  /\ IdleMain
  /\ lines = <<>>
  /\ parseLog = <<>>
  /\ scored = NotScored
  /\ IdleDownload
  /\ IdleDriver
  /\ IdleReader
  /\ IdleRescan
  /\ IdleExtract
  /\ IdleWeb
  /\ distFiles = EmptyFiles
  /\ dataFiles = EmptyFiles
  /\ publicFiles = {}
  /\ meta = "book"
  /\ existing = NoBook
  /\ result = NoResult
  /\ pc = "history"

NextHistory == SaveReadingProgress \/ ClearReadingProgress \/ ClockTick

SpecHistory == InitHistory /\ [][NextHistory]_vars

\* ------------------------------------------------------------------------
\* Properties of parseChapterIndices and of the chapter bodies
\* ------------------------------------------------------------------------

\* processBook is writing, or has written, chapters that parseChapterIndices
\* detected
WritingDetected ==
  pc \in {"chunk", "returned"} /\ ~usedFallbackRule /\ Len(bookChapters) > 0

\* the body processBook writes for a range (line 1428)
WrittenBody(range) == SliceLines(lines, range.startLine, range.endLine)

\* the logical lines from `from` (0-based) up to, not including, `to`
LogicalLines(from, to) == [j \in 1..(to - from) |-> processed[from + j].text]

RECURSIVE ConcatRange(_, _, _)
\* the characters of texts[lo..hi], one line after the other, by halves
ConcatRange(texts, lo, hi) ==
  IF lo > hi THEN <<>>
  ELSE IF lo = hi THEN texts[lo]
  ELSE ConcatRange(texts, lo, (lo + hi) \div 2) \o ConcatRange(texts, (lo + hi) \div 2 + 1, hi)

\* the characters of a list of lines, whitespace and line structure apart
TextOf(texts) == SelectSeq(ConcatRange(texts, 1, Len(texts)), LAMBDA c : c \notin WS)

\* C1: the body written for every detected chapter is exactly the logical
\* lines strictly after its heading line and before the next heading line (or
\* the end of the corpus), whether or not composite splitting changed the
\* number of lines: the two hold the same text, none of it skipped,
\* duplicated or taken from another chapter
C1_BodyIsLinesBetweenHeadings ==
  WritingDetected =>
    \A k \in 1..Len(bookChapters) :
      TextOf(WrittenBody(bookChapters[k]))
        = TextOf(LogicalLines(bookChapters[k].startLine, bookChapters[k].endLine))

\* C1: a composite line was split and a line of the corpus is written into
\* no chapter body
C1_LineLostAfterSplit ==
  /\ WritingDetected
  /\ Len(processed) > Len(lines)
  /\ \E k \in 1..Len(bookChapters) :
       Len(WrittenBody(bookChapters[k]))
         < bookChapters[k].endLine - bookChapters[k].startLine

C3_StartLinesIncrease ==
  pc = "partition" =>
    \A a, b \in 1..Len(bookChapters) :
      a < b => bookChapters[a].startLine < bookChapters[b].startLine

\* C3: parseChapterIndices has returned ranges for headings that came from
\* a split composite line and from a line of their own
C3_RangesOfSplitCorpus ==
  /\ pc = "partition"
  /\ Len(bookChapters) >= 3
  /\ Len(processed) > Len(lines)

\* ------------------------------------------------------------------------
\* Properties of the chunk loop and of the per-book index
\* ------------------------------------------------------------------------

\* the segments of the book under dist/books
SegmentsOf(bookId) == {f \in DOMAIN distFiles : f[1] = bookId}

\* C4: no segment is larger than MAX_CHUNK_SIZE and every chapter written
\* lies in exactly one segment
C4_SegmentsWithinCap ==
  pc \in {"chunk", "returned"} =>
    /\ \A f \in SegmentsOf(meta) : distFiles[f].size <= MAX_CHUNK_SIZE
    /\ \A order \in 1..idx :
         Cardinality({f \in SegmentsOf(meta) :
                        \E k \in 1..Len(distFiles[f].chapters) :
                          distFiles[f].chapters[k] = order}) = 1

\* C4: a chapter larger than the cap has been written
C4_OversizedChapterWritten ==
  /\ pc = "returned"
  /\ \E k \in 1..Len(chapterBytes) : chapterBytes[k] > MAX_CHUNK_SIZE
  /\ \E f \in SegmentsOf(meta) : distFiles[f].size > MAX_CHUNK_SIZE

RECURSIVE LengthBefore(_, _, _)
\* the bytes of the chapters before the n-th that are in segment assetIndex
LengthBefore(chapters, n, assetIndex) ==
  IF n <= 1 THEN 0
  ELSE LengthBefore(chapters, n - 1, assetIndex)
       + (IF chapters[n - 1].assetIndex = assetIndex THEN chapters[n - 1].length ELSE 0)

\* the orders of the chapters of the index that are in segment assetIndex
OrdersIn(chapters, assetIndex) ==
  SelectSeq([k \in 1..Len(chapters) |-> IF chapters[k].assetIndex = assetIndex
                                        THEN chapters[k].order ELSE 0],
            LAMBDA o : o > 0)

\* the index processBook has just written
IndexWritten == pc = "returned" /\ result.returned /\ result.value /= existing

\* C5: in the index processBook writes, assets holds no duplicate and lists
\* the segments in write order; every assetIndex is valid; every startByte is
\* the sum of the lengths of the earlier chapters of the same segment and
\* every length the byte length of the chapter, so that the chapters of a
\* segment tile it in chapter order
C5_IndexTilesSegments ==
  IndexWritten =>
    LET payload == dataFiles[meta]
    IN /\ \A a, b \in 1..Len(payload.assets) :
            a < b => payload.assets[a] < payload.assets[b]
       /\ payload.assets = assetPaths
       /\ Len(payload.chapters) = Len(bookChapters)
       /\ \A k \in 1..Len(payload.chapters) :
            /\ payload.chapters[k].order = k
            /\ payload.chapters[k].assetIndex \in 0..(Len(payload.assets) - 1)
            /\ payload.chapters[k].length = chapterBytes[k]
            /\ payload.chapters[k].startByte
                 = LengthBefore(payload.chapters, k, payload.chapters[k].assetIndex)
       /\ \A a \in 1..Len(payload.assets) :
            /\ distFiles[<<meta, payload.assets[a]>>].size
                 = LengthBefore(payload.chapters, Len(payload.chapters) + 1, a - 1)
            /\ distFiles[<<meta, payload.assets[a]>>].chapters
                 = OrdersIn(payload.chapters, a - 1)

\* C5: an index over two segments or more, the second one holding two
\* chapters or more
C5_IndexOverSeveralSegments ==
  /\ IndexWritten
  /\ Len(dataFiles[meta].assets) >= 2
  /\ \E k \in 2..Len(dataFiles[meta].chapters) :
       /\ dataFiles[meta].chapters[k].assetIndex >= 1
       /\ dataFiles[meta].chapters[k].startByte > 0

\* ------------------------------------------------------------------------
\* Properties of the fallback rule
\* ------------------------------------------------------------------------

NonEmptyLineCount == Cardinality({k \in 1..Len(lines) : Len(Trim(lines[k])) > 0})

\* processBook has decided what to do with a text in which no heading was
\* accepted
DecidedWithoutHeadings ==
  pc \in {"chunk", "returned"} /\ Len(chapterIndices) = 0

RunEnded == pc \in {"done", "failed"}

\* the pending list once the books of the batch are taken off it
PendingAfterBatch ==
  IF Len(booksToProcess) > BatchSize
  THEN [exists |-> TRUE, list |-> SubSeq(booksToProcess, BatchSize + 1, Len(booksToProcess))]
  ELSE NoPendingFile

\* C8: a run that found archives ends only after every book of the batch was
\* visited, with the manifest and the book list written and the pending list
\* updated, whatever failed for a book
C8_BatchSurvivesBookFailure ==
  (RunEnded /\ DOMAIN sourceFiles /= {}) =>
    /\ pc = "done"
    /\ batchI = BatchSize
    /\ booksJson.written
    /\ manifestFile = nextManifest
    /\ pendingFile = PendingAfterBatch

\* C8: the run was aborted by the failure of one book while another book of
\* the batch was waiting; nothing was written and the pending list still
\* names the failed book
C8_AbortedWithBookWaiting ==
  /\ pc = "failed"
  /\ batchI + 1 < BatchSize
  /\ ~booksJson.written
  /\ manifestFile = manifest
  /\ pendingFile = [exists |-> TRUE, list |-> booksToProcess]

\* every segment the asset list names exists and was written whole
SegmentsWhole(b, assets) ==
  \A k \in 1..Len(assets) :
    /\ <<b, assets[k]>> \in DOMAIN distFiles
    /\ distFiles[<<b, assets[k]>>].status = "closed"

\* C9: when processBook has written an index, and when the run has ended,
\* every index file and every manifest entry names only segments that were
\* written whole
C9_IndexNamesWholeSegments ==
  (RunEnded \/ pc = "returned") =>
    /\ \A b \in DOMAIN dataFiles : SegmentsWhole(b, dataFiles[b].assets)
    /\ \A b \in DOMAIN manifestFile : SegmentsWhole(b, manifestFile[b].assets)

\* C9: the run has ended without error and the index and the manifest entry
\* of a book name a segment whose write failed
C9_IndexOverFailedSegment ==
  /\ pc = "done"
  /\ \E b \in (DOMAIN dataFiles) \cap (DOMAIN manifestFile) :
       /\ manifestFile[b].hash = "new"
       /\ \E k \in 1..Len(dataFiles[b].assets) :
            distFiles[<<b, dataFiles[b].assets[k]>>].status = "failed"

\* the books with an entry in the loaded manifest whose archive yields no text
NoTextBooks ==
  {b \in (DOMAIN sourceFiles) \cap (DOMAIN manifest) : sourceFiles[b] = "notext"}

\* C10: for a book whose archive yields no text, processBook returns the
\* previous entry; the entry stays in the next manifest and in the manifest
\* file, and the book's segment and index file stay as they were
C10_NoTextKeepsPriorOutput ==
  /\ (pc = "returned" /\ sourceFiles[meta] = "notext") => result.value = existing
  /\ \A b \in NoTextBooks :
       /\ b \in DOMAIN nextManifest /\ nextManifest[b] = manifest[b]
       /\ b \in DOMAIN manifestFile /\ manifestFile[b] = manifest[b]
       /\ distFiles[<<b, 1>>] = PreviousSegment
       /\ b \in DOMAIN dataFiles /\ dataFiles[b] = PreviousIndex

\* C10: the run has ended after it visited a book with a previous entry
\* whose archive yields no text
C10_NoTextBookVisited ==
  /\ pc = "done"
  /\ booksJson.written
  /\ \E k \in 1..batchI :
       /\ booksToProcess[k] \in NoTextBooks
       /\ manifestFile[booksToProcess[k]] = PreviousEntry

\* ------------------------------------------------------------------------
\* Properties of the incremental build (main)
\* ------------------------------------------------------------------------

\* the archive of b is there, the manifest file records its hash and the
\* index file of b exists
UpToDate(b) == b \in DOMAIN sourceFiles /\ ~NeedsProcessing(b)

\* the books of the loaded manifest whose archive is unchanged and whose
\* index file is the one the earlier run wrote
KeptBooks ==
  {b \in (DOMAIN sourceFiles) \cap (DOMAIN manifest) :
     /\ manifest[b].hash = "new"
     /\ b \in DOMAIN dataFiles
     /\ dataFiles[b] = PreviousIndex}

\* C11: in any run, processBook is called only for a book that has no
\* manifest entry, or whose archive hash differs from the recorded one, or
\* whose index file is missing; a book whose hash is the recorded one and
\* whose index exists keeps its segments, and its entry is carried over
\* unchanged into the manifest the run writes
C11_HashGatesReprocessing ==
  /\ pc = "process" => NeedsProcessing(meta)
  /\ (pc = "done" /\ DOMAIN sourceFiles /= {}) =>
       \A b \in KeptBooks :
         /\ b \in DOMAIN manifestFile
         /\ manifestFile[b] = manifest[b]
         /\ distFiles[<<b, 1>>] = PreviousSegment

\* C11: processBook is rewriting the segments of a book whose recorded hash
\* is the hash of its archive and whose index file exists: the cached
\* pending list named the book
C11_UpToDateBookReprocessed ==
  /\ pc = "chunk"
  /\ UpToDate(meta)
  /\ distFiles[<<meta, 1>>] /= PreviousSegment
  /\ \E k \in 1..Len(booksToProcess) : booksToProcess[k] = meta

\* the books of the loaded manifest whose archive is no longer in sourceRar
RemovedFromSource == (DOMAIN manifest) \ (DOMAIN sourceFiles)

\* C12: after a run, every book of the previous manifest whose archive is no
\* longer in the source set (the source set may be empty) has none of its
\* segments and no index file left, and is absent from the new manifest and
\* from the book list
C12_RemovedBooksCleaned ==
  pc = "done" =>
    \A b \in RemovedFromSource :
      /\ \A f \in DOMAIN distFiles : f[1] /= b
      /\ b \notin DOMAIN dataFiles
      /\ b \notin DOMAIN manifestFile
      /\ booksJson.written
      /\ b \notin DOMAIN booksJson.books

\* C12: the run has cleaned up after a removed book (its index file is gone,
\* the manifest and the book list do not name it) and the segment the
\* earlier run wrote for it is still under dist/books
C12_SegmentOfRemovedBookLeft ==
  /\ pc = "done"
  /\ booksJson.written
  /\ \E b \in RemovedFromSource :
       /\ b \notin DOMAIN dataFiles
       /\ b \notin DOMAIN manifestFile
       /\ b \notin DOMAIN booksJson.books
       /\ <<b, 1>> \in DOMAIN distFiles
       /\ distFiles[<<b, 1>>] = PreviousSegment

\* C12: the source set is empty, the run has ended, and the manifest still
\* names a book whose index file is still there
C12_EmptySourceLeavesAll ==
  /\ pc = "done"
  /\ DOMAIN sourceFiles = {}
  /\ \E b \in RemovedFromSource : b \in DOMAIN manifestFile /\ b \in DOMAIN dataFiles

\* ------------------------------------------------------------------------
\* Properties of the detection engine as a function of the document
\* ------------------------------------------------------------------------

ReturnedParses == {k \in 1..Len(parseLog) : parseLog[k].returned}

\* C13: heading detection is deterministic and free of side effects: two
\* calls on the same line array return the same titles and ranges, the line
\* array is the same after the call as before, and the value of a call is
\* the value the document has on its own, whatever was parsed before
C13_ParseIsFunctionOfDocument ==
  pc = "idle" =>
    /\ \A a, b \in ReturnedParses :
         parseLog[a].given = parseLog[b].given => parseLog[a].chapters = parseLog[b].chapters
    /\ \A k \in ReturnedParses :
         /\ parseLog[k].lines = parseLog[k].given
         /\ parseLog[k].chapters = parseChapterIndices(parseLog[k].given)

\* C13: a document that ends under a volume heading was parsed, and then a
\* document that starts with a chapter heading and names a volume later; the
\* chapter carries no volume title
C13_ChapterParsedAfterVolume ==
  /\ ReturnedParses = {1, 2}
  /\ parseLog[1].given = <<ChapterLine, VolumeLine>>
  /\ parseLog[2].given = <<ChapterLine, OtherVolumeLine>>
  /\ Len(parseLog[2].chapters) = 1
  /\ parseLog[2].chapters[1].title = ChapterLine
  /\ "juan" \in hierarchy.upperMarkers

\* ------------------------------------------------------------------------
\* Properties of the titles
\* ------------------------------------------------------------------------

\* the scan loop has just pushed an entry for logical line i
Emitted == pc = "scan" /\ Len(chapterIndices') = Len(chapterIndices) + 1

\* the current upper heading is one whose marker is an upper marker and not
\* a primary marker of the document
UnderUpperMarker ==
  /\ currentHeading.found
  /\ currentHeading.marker \in hierarchy.upperMarkers
  /\ currentHeading.marker \notin hierarchy.primaryMarkers

C14_ChapterUnderOtherHeading ==
  /\ pc = "scan"
  /\ currentHeading.found
  /\ ~UnderUpperMarker
  /\ i > 0
  /\ Len(chapterIndices) > 0
  /\ chapterIndices[Len(chapterIndices)].index = i - 1
  /\ chapterIndices[Len(chapterIndices)].title = Trim(processed[i].text)

\* the upper heading extractUpperHeading finds on the first line of the
\* document
FirstLineHeading == extractUpperHeading(Trim(lines[1]), hierarchy)

\* C15: every recognised upper heading format, the Latin "Book 2" and a
\* fully bracketed line included, is put in front of the titles of the
\* chapters that follow it, as a "第 N 卷" heading is
C15_EveryUpperFormPrefixed ==
  (pc = "partition" /\ lines \in UpperFormDocuments) =>
    /\ Len(bookChapters) = 1
    /\ bookChapters[1].title = FirstLineHeading.title \o <<"sp">> \o ChapterLine

\* C15: "Book 2" was taken as the current upper heading and the chapter that
\* follows it has the chapter line alone as its title
C15_BookHeadingNotPrefixed ==
  /\ pc = "partition"
  /\ lines = <<BookLine, ChapterLine>>
  /\ currentHeading.found
  /\ currentHeading.title = BookLine
  /\ currentHeading.marker = "book"
  /\ Len(bookChapters) = 1
  /\ bookChapters[1].title = ChapterLine

\* C15: the same for a fully bracketed line
C15_BracketHeadingNotPrefixed ==
  /\ pc = "partition"
  /\ lines = <<BracketLine, ChapterLine>>
  /\ currentHeading.found
  /\ currentHeading.title = BracketLine
  /\ Len(bookChapters) = 1
  /\ bookChapters[1].title = ChapterLine

\* C15: the "第 N 卷" heading is put in front of the chapter title
C15_VolumeHeadingPrefixed ==
  /\ pc = "partition"
  /\ lines = <<VolumeLine, ChapterLine>>
  /\ bookChapters[1].title = VolumeLine \o <<"sp">> \o ChapterLine

\* ------------------------------------------------------------------------
\* Properties of the confidence score
\* ------------------------------------------------------------------------

\* the numeral of a line of the form 第 + numeral + ... is line[2..n+1]
IsNumeral(line, n) ==
  \/ \A k \in 2..(n + 1) : line[k] \in DIGITS
  \/ \A k \in 2..(n + 1) : line[k] \in EXTENDED_CHINESE_NUMERAL_CHARS

\* 第 + numeral + primary marker + one whitespace + a title that starts with
\* an ideograph; at most 18 characters, no sentence punctuation
HasShortHeadingForm(line) ==
  /\ Len(line) <= 18
  /\ CountIn(line, SENTENCE_PUNCTUATION) = 0
  /\ line[1] = "di"
  /\ line[Len(line)] \notin WS
  /\ \E n \in 1..(Len(line) - 4) :
       /\ IsNumeral(line, n)
       /\ line[n + 2] \in PRIMARY_CHAPTER_MARKERS
       /\ line[n + 3] \in WS
       /\ line[n + 4] \in CJK_LETTER

ScoredInScan == scored.done /\ scored.kind = "scan"

\* the line holds no heading start behind its first character: it is a
\* logical line, one that composite splitting leaves whole
IsLogicalLine(line, h) == Len(splitCompositeLine(line, h)) = 1

C16_ScenarioAccepted ==
  /\ ScoredInScan
  /\ lines = ScenarioCorpus
  /\ scored.confidence = 545
  /\ scored.push = << [index |-> 0, title |-> ScenarioHeading] >>

\* the sentence punctuation marks of a line that count (lines 986-988)
DenseCount(line) ==
  Cardinality({k \in 1..Len(line) :
                 /\ line[k] \in SENTENCE_PUNCTUATION
                 /\ \E j \in k..Len(line) : line[j] \notin TRAILING_MARKS})

\* C17: a line of at least 35 characters with at least 4 sentence
\* punctuation marks, a trailing run of exclamation marks not counted,
\* scores below 1.8 with the base confidence of every pattern and every
\* text after the marker, and is not accepted as a heading in the scan loop
\* even when it starts with an ordinal and a marker
C17_DenseLineBelowThreshold ==
  (scored.done /\ Len(scored.line) >= 35 /\ DenseCount(scored.line) >= 4) =>
    /\ scored.confidence < 180
    /\ scored.push = <<>>

\* C17: a line of 35 characters with 4 marks that count in its bracketed
\* annotation, then 第一章, two spaces, a bracket and a short title, was
\* matched by the first pattern and scored -0.35
C17_DenseCandidateScored ==
  /\ ScoredInScan
  /\ scored.candidate
  /\ Len(scored.line) = 35
  /\ DenseCount(scored.line) = 4
  /\ scored.line = AnnotatedLine(4, <<"sp", "sp", "lb">>, <<"jia", "jia">>, 35)
  /\ scored.confidence = -35
  /\ scored.push = <<>>

\* ------------------------------------------------------------------------
\* Composite line splitting
\* ------------------------------------------------------------------------

\* the offsets at which a line is cut: its start, the match starts, its end
CutOffsets(line, starts) == <<1>> \o starts \o <<Len(line) + 1>>

\* the trimmed slices between successive cut offsets, the empty ones dropped
TrimmedPieces(line, starts) ==
  SelectSeq([k \in 1..(Len(starts) + 1) |->
               Trim(Slice(line, CutOffsets(line, starts)[k],
                          CutOffsets(line, starts)[k + 1]))],
            LAMBDA piece : Len(piece) > 0)

\* what the claim says the segments of a line are
ExpectedSegments(line, h) ==
  IF Len(HeadingStarts(line, 1, SplitMarkers(h))) = 0 THEN << line >>
  ELSE TrimmedPieces(line, HeadingStarts(line, 1, SplitMarkers(h)))

RECURSIVE ExpectedProcessed(_, _, _, _)
\* the expected logical lines of document[lo..hi], computed by halves
ExpectedProcessed(document, lo, hi, h) ==
  IF lo > hi THEN <<>>
  ELSE IF lo = hi THEN Flagged(ExpectedSegments(document[lo], h))
  ELSE ExpectedProcessed(document, lo, (lo + hi) \div 2, h)
       \o ExpectedProcessed(document, (lo + hi) \div 2 + 1, hi, h)

NonWhitespace(s) == SelectSeq(s, LAMBDA c : c \notin WS)

RECURSIVE Joined(_, _, _)
\* the non-white-space characters of logical lines lo..hi, in order
Joined(logical, lo, hi) ==
  IF lo > hi THEN <<>>
  ELSE IF lo = hi THEN NonWhitespace(logical[lo].text)
  ELSE Joined(logical, lo, (lo + hi) \div 2) \o Joined(logical, (lo + hi) \div 2 + 1, hi)

RECURSIVE JoinedLines(_, _, _)
\* the non-white-space characters of lines lo..hi of the document, in order
JoinedLines(document, lo, hi) ==
  IF lo > hi THEN <<>>
  ELSE IF lo = hi THEN NonWhitespace(document[lo])
  ELSE JoinedLines(document, lo, (lo + hi) \div 2)
       \o JoinedLines(document, (lo + hi) \div 2 + 1, hi)

\* C18: when parseChapterIndices has split the lines, the logical lines of
\* every line are, in order, the non-empty trimmed slices of the line between
\* its start, the successive heading-match starts and its end, or the line
\* itself, unchanged, when it has no heading-match start; the logical lines
\* keep the non-white-space characters of the text and their order; the line
\* 第一章 甲第1章 甲 gives the two logical lines 第一章 甲 and 第1章 甲, and each
\* is scored on its own and becomes a chapter of its own
C18_SplitAtEveryHeadingStart ==
  /\ (pc = "scan" /\ i = 0) =>
       /\ processed = ExpectedProcessed(lines, 1, Len(lines), hierarchy)
       /\ Joined(processed, 1, Len(processed)) = JoinedLines(lines, 1, Len(lines))
  /\ (pc = "scan" /\ lines = << CompositeLine >>) =>
       /\ processed = << [text |-> ChapterLine, composite |-> TRUE],
                         [text |-> <<"di", "1", "zhang", "sp", "jia">>,
                          composite |-> TRUE] >>
       /\ (i = Len(processed)) =>
            chapterIndices = << [index |-> 0, title |-> ChapterLine],
                                [index |-> 1,
                                 title |-> <<"di", "1", "zhang", "sp", "jia">>] >>

\* C18: a line with prose and white space around two heading starts was cut
\* into three logical lines
C18_LineCutAtTwoStarts ==
  /\ pc = "scan"
  /\ i = Len(processed)
  /\ Len(lines) = 3
  /\ lines[2] = <<"jia", "sp", "di", "yi", "zhang", "sp", "jia", "sp", "di", "1", "zhang",
                  "sp", "jia", "sp">>
  /\ Len(HeadingStarts(lines[2], 1, SplitMarkers(hierarchy))) = 2
  /\ Len(processed) = 5
  /\ processed[2].text = <<"jia">>
  /\ processed[3].text = ChapterLine
  /\ processed[4].text = <<"di", "1", "zhang", "sp", "jia">>

\* C18: a line without a heading start, with white space at both ends, was
\* kept as it is
C18_LineWithoutStartKept ==
  /\ pc = "scan"
  /\ Len(lines) = 3
  /\ lines[2] = <<"sp", "jia", "sp", "jia", "sp">>
  /\ processed[2].text = lines[2]

\* ------------------------------------------------------------------------
\* The download endpoint
\* ------------------------------------------------------------------------

RECURSIVE BodiesFrom(_, _)
\* the bodies of the segments of list q from the k-th on, one after another
BodiesFrom(q, k) ==
  IF k > Len(q) THEN <<>> ELSE SegmentBody(q[k]) \o BodiesFrom(q, k + 1)

\* the whole book: every segment of the asset list, in the order of the list
WholeBook == BodiesFrom(segmentPaths, 1)

IsPrefixOf(a, b) == Len(a) <= Len(b) /\ a = SubSeq(b, 1, Len(a))

\* the body is closed in this step
ClosesBody == writable /= "closed" /\ writable' = "closed"

\* C19: what has been written to the body is at every moment a prefix of the
\* segments of the index's asset list taken in the order of the list, each
\* once; the body is closed only in the step in which the last segment has
\* been piped to its end, and a closed body holds exactly the whole book and
\* stays closed; when the fetch of a segment or a pipe has failed the body is
\* errored and is never closed; the answer has status 400 when the book id
\* is missing, the status of the chaptersResponse answer when the fetch of the index
\* file is not ok, and 404 when the index lists no segment
C19_SegmentsStreamedInOrder ==
  /\ [](/\ IsPrefixOf(written, WholeBook)
        /\ (writable = "closed") => (written = WholeBook /\ streamer = "finished")
        /\ (streamer = "aborted") => (writable = "errored")
        /\ (streamer = "finished") => (writable = "closed")
        /\ (pc = "responded" /\ paramsBookId = "") => (response = JsonResponse(400))
        /\ (pc = "responded" /\ paramsBookId /= "" /\ chaptersResponse.kind = "status")
             => (response = JsonResponse(chaptersResponse.status))
        /\ (pc = "responded" /\ paramsBookId /= "" /\ chaptersResponse.kind = "ok"
            /\ Len(chaptersResponse.assets) = 0) => (response = JsonResponse(404))
        /\ (response.status = 200) => (segmentPaths = chaptersResponse.assets /\ writable /= "none"))
  /\ [][ClosesBody => (/\ pipeIndex = Len(segmentPaths) - 1
                       /\ Len(piping) = 0
                       /\ written = WholeBook)]_vars
  /\ [][(writable = "errored") => (writable' = "errored")]_vars
  /\ [][(writable = "closed") => (writable' = "closed")]_vars

\* C19: a book of three segments listed out of their numeric order has been
\* streamed to the end and the body is closed
C19_WholeBookStreamed ==
  /\ segmentPaths = <<2, 1, 3>>
  /\ writable = "closed"
  /\ streamer = "finished"
  /\ Len(written) = 3
  /\ written[1].asset = 2
  /\ written[3].asset = 1

\* C19: the fetch of the last segment failed after the segments before it
\* had been written: the body is errored
C19_LastSegmentFailed ==
  /\ Len(segmentPaths) = 2
  /\ pipeIndex = 1
  /\ streamer = "aborted"
  /\ Len(piping) = 0
  /\ written = SegmentBody(segmentPaths[1])
  /\ Len(written) > 0
  /\ writable = "errored"

\* C19: the index file was answered with 404 and so is the request
C19_UpstreamStatusForwarded ==
  /\ pc = "responded"
  /\ chaptersResponse = [kind |-> "status", status |-> 404]
  /\ response = JsonResponse(404)

\* ------------------------------------------------------------------------
\* The batch loops
\* ------------------------------------------------------------------------

NoRepetition(q) == \A a, b \in 1..Len(q) : q[a] = q[b] => a = b

\* a run of main has ended with code 0 and left books pending
RunLeftBooksPending == pc = "done" /\ pendingFile.exists

\* the batch of a run has been processed and the pending list is updated
UpdatesPendingList == pc = "batch" /\ pc' = "cleanup"

\* C20: a batch loop whose runs do not fail goes to the next run whenever
\* the run that has ended left books pending; each run takes one batch off
\* the pending list; the loop has ended only when the pending list is removed,
\* and then no book has been handed to processBook twice
C20_LoopRunsUntilNothingPending ==
  /\ [][RunLeftBooksPending => (pc' = "loop")]_vars
  /\ [][UpdatesPendingList =>
         (Len(pendingFile'.list)
            = Len(pendingFile.list) - Min(BATCH_SIZE, Len(pendingFile.list)))]_vars
  /\ []((pc = "stopped") => (~pendingFile.exists /\ NoRepetition(handed)))

\* C20: the loop on the output has ended after its first run, which
\* processed one book of the two that had to be processed and left the other
\* in the pending list
C20_StoppedWithBooksPending ==
  /\ pc = "stopped"
  /\ driver = "output"
  /\ iteration = 1
  /\ BATCH_SIZE = 1
  /\ DOMAIN sourceFiles = {1, 2}
  /\ handed = <<1>>
  /\ pendingFile = [exists |-> TRUE, list |-> <<2>>]
  /\ 2 \notin DOMAIN manifestFile

\* C20: the loop on the pending file has ended after two runs of one book
\* each, with no pending list left
C20_PendingFileLoopDone ==
  /\ pc = "stopped"
  /\ driver = "pendingFile"
  /\ iteration = 2
  /\ handed = <<1, 2>>
  /\ ~pendingFile.exists
  /\ DOMAIN manifestFile = {1, 2}

\* ------------------------------------------------------------------------
\* The byte window of the reader
\* ------------------------------------------------------------------------

\* the handler in place is the one of the latest render
HandlerCurrent == handleScroll = Rendered(viewStart, viewEnd, book, isLoadingMore)

\* C21: the loaded byte window [viewStart, viewEnd) never spans more than
\* MAX_CHUNKS chunks of CHUNK_SIZE bytes, whatever scroll events came before
C21_WindowWithinMaxChunks ==
  pc = "reader" => viewEnd - viewStart <= MAX_CHUNKS * CHUNK_SIZE

\* one scroll event found both ends near: the handler of a window of two
\* chunks moved viewStart down and viewEnd up, and four chunks are loaded
C21_BothEndsExtended ==
  /\ pc = "reader"
  /\ isLoadingMore
  /\ ~handleScroll.isLoadingMore
  /\ handleScroll.viewEnd - handleScroll.viewStart = 2 * CHUNK_SIZE
  /\ viewStart = handleScroll.viewStart - CHUNK_SIZE
  /\ viewEnd = handleScroll.viewEnd + CHUNK_SIZE
  /\ viewEnd - viewStart = (MAX_CHUNKS + 1) * CHUNK_SIZE

\* a scroll event that the handler of the latest render takes, and that
\* extends the window at one end only, leaves at most MAX_CHUNKS chunks loaded
WindowKeptByOneEndedScroll ==
  [][(/\ HandleScroll
      /\ HandlerCurrent
      /\ viewEnd - viewStart <= MAX_CHUNKS * CHUNK_SIZE
      /\ viewStart' = viewStart \/ viewEnd' = viewEnd \/
           currentChunks(viewStart, viewEnd) >= MAX_CHUNKS)
     => viewEnd' - viewStart' <= MAX_CHUNKS * CHUNK_SIZE]_vars

\* a scroll event that the handler of the latest render takes leaves at
\* most MAX_CHUNKS chunks loaded
WindowKeptByScroll ==
  [][(HandleScroll /\ HandlerCurrent /\ viewEnd - viewStart <= MAX_CHUNKS * CHUNK_SIZE)
     => viewEnd' - viewStart' <= MAX_CHUNKS * CHUNK_SIZE]_vars

\* ------------------------------------------------------------------------
\* The fallback scanner
\* ------------------------------------------------------------------------

\* the scanner has run
Scanned == pc \in {"main", "batch", "cleanup"}

\* the first chapter title of every book processed by the fallback rule has
\* the shape the scanner looks for
FallbackTitlesHaveShape ==
  \A b \in usedFallbackBooks :
    /\ b \in DOMAIN dataFiles
    /\ Len(dataFiles[b].chapters) > 0
    /\ fallbackPattern(dataFiles[b].chapters[1].title)

\* C22: the books the fallback scanner takes out of the manifest are exactly
\* the books whose chapters the fallback rule produced, and the scan of the
\* next run of preprocess selects each of them
C22_ScannerRemovesExactlyFallbackBooks ==
  /\ FallbackTitlesHaveShape
  /\ Scanned => /\ Range(fallbackBookIds) = usedFallbackBooks
                /\ usedFallbackBooks \cap DOMAIN manifestFile = {}
  /\ pc \in {"batch", "cleanup"} => usedFallbackBooks \subseteq Range(booksToProcess)

\* the scanner has taken a book out of the manifest whose chapters
\* parseChapterIndices detected
C22_DetectedBookRemoved ==
  /\ Scanned
  /\ \E b \in Range(fallbackBookIds) :
       /\ b \notin usedFallbackBooks
       /\ Len(parseChapterIndices(sourceFiles[b])) > 0

\* every book of the fallback rule is taken out of the manifest, and the scan
\* of the next run selects every book the scanner took out
FallbackBooksReprocessed ==
  /\ FallbackTitlesHaveShape
  /\ Scanned => /\ usedFallbackBooks \subseteq Range(fallbackBookIds)
                /\ Range(fallbackBookIds) \cap DOMAIN manifestFile = {}
  /\ pc \in {"batch", "cleanup"} => Range(fallbackBookIds) \subseteq Range(booksToProcess)

\* a run of preprocess has selected two books of the fallback rule again
TwoFallbackBooksSelected ==
  /\ pc = "batch"
  /\ Cardinality(usedFallbackBooks) = 2
  /\ usedFallbackBooks \subseteq Range(booksToProcess)

\* ------------------------------------------------------------------------
\* The names of the extracted entries
\* ------------------------------------------------------------------------

\* the names returned so far are pairwise distinct
DistinctNames ==
  \A j \in 1..Len(allocated), k \in 1..Len(allocated) :
    j /= k => allocated[j].name /= allocated[k].name

\* the entry passes the filter of the extraction (line 1261)
EndsWithTxt(name) == Len(name) > 0 /\ name[Len(name)] = "dottxt"

\* the original statement of C23: the names allocated for any sequence of
\* entry names are pairwise distinct
C23_AllocatedNamesDistinct == pc = "extract" => DistinctNames

\* C23: the names allocated for a sequence of entry names that all end in
\* .txt are pairwise distinct, repeated names and names whose stem ends in
\* _<number> included
C23_TxtNamesDistinct ==
  (pc = "extract" /\ \A k \in 1..Len(allocated) : EndsWithTxt(allocated[k].entry))
    => DistinctNames

\* o.txt came twice, as k/o.txt and as o.txt, and o_.txt came from
\* two entries: three distinct names
C23_RepeatedTxtNames ==
  /\ pc = "extract"
  /\ Len(allocated) = 3
  /\ allocated[1].entry = <<"k", "/", "o", "dottxt">>
  /\ allocated[2].entry = <<"o", "dottxt">>
  /\ allocated[3].entry = <<"k", "bsl", "o", "dottxt">>
  /\ allocated[1].name = <<"o", "dottxt">>
  /\ allocated[2].name = <<"o", "dottxt", "_", "1">>
  /\ allocated[3].name = <<"o", "dottxt", "_", "2">>

\* o.txt, o.txt and o.txt_1 were allocated o.txt, o.txt_1 and o.txt_1
SameNameTwice ==
  /\ pc = "extract"
  /\ Len(allocated) = 3
  /\ allocated[2].name = allocated[3].name
  /\ allocated[3].entry = <<"o", "dottxt", "_", "1">>

\* ------------------------------------------------------------------------
\* The current upper heading during the scan
\* ------------------------------------------------------------------------

\* logical line k (1-based) is an upper heading candidate and no chapter
\* candidate
UpperCandidateAt(k) ==
  /\ extractUpperHeading(Trim(processed[k].text), hierarchy).found
  /\ ~matchChapterHeading(Trim(processed[k].text), processed[k].composite, hierarchy).found

\* logical line k is accepted as an upper heading
AcceptedUpperAt(k) ==
  /\ UpperCandidateAt(k)
  /\ isHeadingAccepted(computeHeadingConfidence(Trim(processed[k].text), 160, <<>>, <<>>))

\* the upper heading of the last of the first n logical lines that was
\* accepted as one, if any
LatestAccepted(n) ==
  IF \E k \in 1..n : AcceptedUpperAt(k)
  THEN extractUpperHeading(
         Trim(processed[CHOOSE k \in 1..n :
                          AcceptedUpperAt(k) /\ \A j \in (k + 1)..n : ~AcceptedUpperAt(j)].text),
         hierarchy)
  ELSE NoHeading

\* the title of an entry is its line, alone or behind the title of the upper
\* heading accepted last before the line
TitledFromEarlierHeading(entry) ==
  \/ entry.title = Trim(processed[entry.index + 1].text)
  \/ /\ LatestAccepted(entry.index).found
     /\ entry.title = LatestAccepted(entry.index).title \o <<"sp">>
                        \o Trim(processed[entry.index + 1].text)

\* documents short enough to look back over all their lines in every state
ShortEnough == Len(processed) <= 2 * MaxLines + 2

\* C24: during the scan the current upper heading changes only at a line
\* accepted as an upper heading, whose heading then replaces it; a rejected
\* candidate and a chapter line leave it unchanged; the entries emitted are
\* never changed afterwards, and the prefix of an entry is the title of the
\* heading accepted last before its line, never one accepted later
C24_HeadingReplacedOnlyWhenAccepted ==
  /\ [][(pc = "scan" /\ i' = i + 1) =>
          /\ currentHeading' =
               IF Len(Trim(processed[i + 1].text)) > 0 /\ AcceptedUpperAt(i + 1)
               THEN extractUpperHeading(Trim(processed[i + 1].text), hierarchy)
               ELSE currentHeading
          /\ SubSeq(chapterIndices', 1, Len(chapterIndices)) = chapterIndices]_vars
  /\ []((pc = "scan" /\ ShortEnough) =>
          /\ currentHeading = LatestAccepted(i)
          /\ \A k \in 1..Len(chapterIndices) : TitledFromEarlierHeading(chapterIndices[k]))

\* the second volume heading has replaced the first: the chapter between
\* them carries the first title, the chapter after them the second
C24_SecondVolumeReplacesFirst ==
  /\ pc = "scan"
  /\ lines = <<VolumeLine, ChapterLine, ScenarioVolume, ChapterLine>>
  /\ i = 4
  /\ currentHeading.title = ScenarioVolume
  /\ Len(chapterIndices) = 2
  /\ chapterIndices[1].title = VolumeLine \o <<"sp">> \o ChapterLine
  /\ chapterIndices[2].title = ScenarioVolume \o <<"sp">> \o ChapterLine

\* a volume line with sentence punctuation was a candidate, was rejected and
\* left the current heading as it was
RejectedCandidateKeepsHeading ==
  /\ pc = "scan"
  /\ lines = <<VolumeLine, PunctuatedVolumeLine, ChapterLine>>
  /\ i = 3
  /\ UpperCandidateAt(2) /\ ~AcceptedUpperAt(2)
  /\ currentHeading.title = VolumeLine
  /\ chapterIndices[1].title = VolumeLine \o <<"sp">> \o ChapterLine

\* a chapter emitted before the volume heading has its line alone as title
ChapterBeforeVolume ==
  /\ pc = "scan"
  /\ lines = <<ChapterLine, VolumeLine, ChapterLine>>
  /\ i = 3
  /\ chapterIndices[1].title = ChapterLine
  /\ chapterIndices[2].title = VolumeLine \o <<"sp">> \o ChapterLine

\* ------------------------------------------------------------------------
\* The marker vocabulary
\* ------------------------------------------------------------------------

\* C25: the vocabulary scanHeadingPatterns returns has no marker in both
\* upperMarkers and primaryMarkers, a reclassified marker included
C25_VocabularyDisjoint ==
  pc = "matching" =>
    /\ hierarchy.upperMarkers \cap hierarchy.primaryMarkers = {}
    /\ hierarchy.upperMarkers \cup hierarchy.primaryMarkers \subseteq ALL_MARKER_CANDIDATES

\* the volume marker was reclassified: it is a primary marker of the
\* vocabulary next to the chapter marker, and no upper marker
C25_VolumeMarkerReclassified ==
  /\ pc = "matching"
  /\ MarkerCount(lines, "juan") > 50
  /\ "juan" \in hierarchy.primaryMarkers
  /\ "zhang" \in hierarchy.primaryMarkers
  /\ "juan" \notin hierarchy.upperMarkers

\* the occurrences of the marker that have an occurrence of some marker of
\* `primaries` on a later line
PrecedingChapter(document, marker, primaries) ==
  {u \in MarkerPositions(document, marker) :
     \E pm \in primaries : \E p \in MarkerPositions(document, pm) : p > u}

\* the marker is followed by a chapter in less than 30% of its occurrences
\* and occurs more than 50 times
RarelyPrecedesChapter(document, marker, primaries) ==
  /\ Cardinality(PrecedingChapter(document, marker, primaries)) * 10
       < MarkerCount(document, marker) * 3
  /\ MarkerCount(document, marker) > 50

\* C26: the ratio computed for the volume marker is the share of its
\* occurrences that have some primary marker later, at most 1, and the marker
\* is moved to primaryMarkers exactly when that share is below 30% and the
\* marker occurs more than 50 times
C26_MovedExactlyWhenRarelyBeforeChapter ==
  pc = "matching" =>
    /\ AppearsBefore(lines, "juan", SeededHierarchy(lines).primaryMarkers)
         = Cardinality(PrecedingChapter(lines, "juan", SeededHierarchy(lines).primaryMarkers))
    /\ AppearsBefore(lines, "juan", SeededHierarchy(lines).primaryMarkers)
         <= MarkerCount(lines, "juan")
    /\ "juan" \in hierarchy.primaryMarkers
         <=> RarelyPrecedesChapter(lines, "juan", SeededHierarchy(lines).primaryMarkers)

\* 8 of 51 volume headings have a chapter and a section heading behind them,
\* less than 30%, and the volume marker is still an upper marker
C26_RareVolumeMarkerKept ==
  /\ pc = "matching"
  /\ lines = Corpus(<<>>, 8, <<ChapterLine, SectionLine>>, 51)
  /\ RarelyPrecedesChapter(lines, "juan", {"zhang", "jie"})
  /\ "juan" \in hierarchy.upperMarkers
  /\ "juan" \notin hierarchy.primaryMarkers

\* with one primary marker in the corpus the volume marker is moved exactly
\* when it is rarely followed by a chapter
MovedExactlyWithOnePrimaryMarker ==
  (pc = "matching" /\ Cardinality(SeededHierarchy(lines).primaryMarkers) <= 1) =>
    ("juan" \in hierarchy.primaryMarkers
       <=> RarelyPrecedesChapter(lines, "juan", SeededHierarchy(lines).primaryMarkers))

\* ------------------------------------------------------------------------
\* Composite flags and headings without a title
\* ------------------------------------------------------------------------

\* the number of segments physical line k is split into
PiecesOf(k) == Len(splitCompositeLine(lines[k], hierarchy))

RECURSIVE LogicalBefore(_)
\* the number of logical lines that come from the physical lines before k
LogicalBefore(k) ==
  IF k = 1 THEN 0 ELSE LogicalBefore(k - 1) + Max(1, PiecesOf(k - 1))

\* the logical lines of every physical line are flagged exactly when the
\* physical line was split into two or more segments
FlagsFollowSplits ==
  \A k \in 1..Len(lines) :
    \A j \in 1..Max(1, PiecesOf(k)) :
      processed[LogicalBefore(k) + j].composite = (PiecesOf(k) >= 2)

\* the line matches a chapter pattern and nothing but white space follows
\* the separator
BareHeading(line, h) ==
  \E pattern \in {ChapterPattern1(line, h.primaryMarkers),
                   ChapterPattern2(line, h.primaryMarkers),
                   ChapterPattern3(line, h.primaryMarkers)} :
    pattern.matched /\ Len(Trim(pattern.rest)) = 0

\* logical line k was emitted as a chapter heading
EmittedAt(k) == \E e \in 1..Len(chapterIndices) : chapterIndices[e].index = k - 1

\* C27: the logical lines of a physical line split into two or more
\* segments are flagged composite and the others are not; a flagged line
\* that matches a chapter pattern with no title text behind the marker is
\* never emitted; an unsplit line 第 + numeral + marker with no title text is
\* a heading candidate and is emitted when its confidence is accepted
C27_BareCompositeNeverEmitted ==
  pc = "scan" =>
    /\ (i = 0 /\ Len(lines) <= MaxLines + 1) => FlagsFollowSplits
    /\ \A e \in 1..Len(chapterIndices) :
         ~(/\ processed[chapterIndices[e].index + 1].composite
           /\ BareHeading(Trim(processed[chapterIndices[e].index + 1].text), hierarchy))
    /\ (/\ i > 0
        /\ ~processed[i].composite
        /\ Len(Trim(processed[i].text)) > 0
        /\ Trim(processed[i].text)[1] = "di"
        /\ BareHeading(Trim(processed[i].text), hierarchy))
       => /\ matchChapterHeading(Trim(processed[i].text), FALSE, hierarchy).found
          /\ isHeadingAccepted(computeHeadingConfidence(Trim(processed[i].text), 240,
                                                        <<>>, <<>>)) => EmittedAt(i)

\* 第一章第一章 甲 was split in two flagged lines: the first, without a
\* title, was not emitted, the second was
C27_BarePieceDropped ==
  /\ pc = "scan"
  /\ lines = <<BareChapterLine \o ChapterLine, Body>>
  /\ i = 3
  /\ processed[1] = [text |-> BareChapterLine, composite |-> TRUE]
  /\ processed[2] = [text |-> ChapterLine, composite |-> TRUE]
  /\ ~EmittedAt(1)
  /\ EmittedAt(2)

\* 第一章 on a line of its own is not flagged and was emitted
UnsplitBareHeadingEmitted ==
  /\ pc = "scan"
  /\ lines = <<Body, BareChapterLine, Body>>
  /\ i = 3
  /\ ~processed[2].composite
  /\ EmittedAt(2)

\* ------------------------------------------------------------------------
\* Chinese numerals without the ordinal prefix
\* ------------------------------------------------------------------------

\* the line matches a chapter pattern that has no 第 in front of its numeral
\* (numeral + marker or marker + numeral, behind an optional bracketed
\* annotation), with a numeral written in Chinese numeral characters only
ChineseNumeralWithoutDi(line, h) ==
  /\ ~ChapterPattern1(line, h.primaryMarkers).matched
  /\ \E pattern \in {ChapterPattern2(line, h.primaryMarkers),
                      ChapterPattern3(line, h.primaryMarkers)} :
       pattern.matched /\ IsChineseNumeralOnly(pattern.num)

\* the line starts with a bracketed annotation that holds 第
AnnotationHoldsDi(line) ==
  /\ BracketPrefixEnd(line, 1) > 1
  /\ ContainsDi(Slice(line, 1, BracketPrefixEnd(line, 1)))

\* C28: a line whose numeral is written in Chinese numeral characters only
\* and has no 第 directly in front of it is never a heading candidate, a
\* line that starts with a bracketed annotation holding 第 included
C28_ChineseNumeralNeedsDi ==
  (pc = "scan" /\ i > 0) =>
    ~(/\ ChineseNumeralWithoutDi(Trim(processed[i].text), hierarchy)
      /\ matchChapterHeading(Trim(processed[i].text), processed[i].composite,
                             hierarchy).found)

\* 【第】一章 甲 was a candidate and was emitted as a chapter
C28_AnnotatedNumeralEmitted ==
  /\ pc = "scan"
  /\ i = 2
  /\ processed[2].text = <<"lb", "di", "rb", "yi", "zhang", "sp", "jia">>
  /\ ChineseNumeralWithoutDi(processed[2].text, hierarchy)
  /\ matchChapterHeading(processed[2].text, processed[2].composite, hierarchy).found
  /\ EmittedAt(2)

\* the rule holds for the lines whose annotation, if any, holds no 第
ChineseNumeralNeedsDiOutsideAnnotation ==
  (pc = "scan" /\ i > 0 /\ ~AnnotationHoldsDi(Trim(processed[i].text))) =>
    ~(/\ ChineseNumeralWithoutDi(Trim(processed[i].text), hierarchy)
      /\ matchChapterHeading(Trim(processed[i].text), processed[i].composite,
                             hierarchy).found)

\* 一章 甲 was scanned and is no chapter
PlainNumeralRejected ==
  /\ pc = "scan"
  /\ i = 2
  /\ processed[2].text = <<"yi", "zhang", "sp", "jia">>
  /\ ~EmittedAt(2)

\* ------------------------------------------------------------------------
\* The byte range read by useBookContent
\* ------------------------------------------------------------------------

\* the global positions from, from + 1, ..., to - 1
Positions(from, to) == [k \in 1..(to - from) |-> from + k - 1]

\* the global positions a request asks for
Asked(request) ==
  Positions(PartOffset(contentQuery.parts, request.part) + request.rangeStart,
            PartOffset(contentQuery.parts, request.part) + request.rangeEnd + 1)

\* the end of the range that exists
EndByte == Min(contentQuery.startByte + contentQuery.length, contentQuery.totalSize)

\* C29: the requests lie inside their parts, go through the parts in order
\* and ask, one after the other, for exactly the bytes from startByte up to
\* min(startByte + length, totalSize), which is also what the merged buffer
\* holds whether or not the server honours the Range header; no request and
\* the empty string when startByte >= totalSize
C29_RequestsCoverRange ==
  /\ contentResult.state # "error"
  /\ (pc = "content") =>
       /\ \A r \in 1..Len(rangeRequests) :
            /\ 0 <= rangeRequests[r].rangeStart
            /\ rangeRequests[r].rangeStart <= rangeRequests[r].rangeEnd
            /\ rangeRequests[r].rangeEnd < contentQuery.parts[rangeRequests[r].part].size
            /\ r > 1 => rangeRequests[r - 1].part < rangeRequests[r].part
       /\ MergeChunks([r \in 1..Len(rangeRequests) |-> Asked(rangeRequests[r])])
            = Positions(contentQuery.startByte, EndByte)
       /\ contentResult.merged = Positions(contentQuery.startByte, EndByte)
       /\ contentQuery.startByte >= contentQuery.totalSize =>
            rangeRequests = <<>> /\ contentResult.merged = <<>>

\* a range that starts inside the first part and ends inside the third one
\* has been read with three requests
C29_RangeOverThreeParts ==
  /\ pc = "content"
  /\ Len(rangeRequests) = 3
  /\ rangeRequests[1].rangeStart > 0
  /\ rangeRequests[3].rangeEnd < contentQuery.parts[3].size - 1
  /\ contentResult.merged = Positions(contentQuery.startByte, EndByte)

\* a range behind the end of the book gave the empty string
EmptyBehindEnd ==
  /\ pc = "content"
  /\ contentQuery.totalSize > 0
  /\ contentQuery.startByte >= contentQuery.totalSize
  /\ contentResult = [state |-> "text", merged |-> <<>>]

\* ------------------------------------------------------------------------
\* The reading history
\* ------------------------------------------------------------------------

\* the stored history
History == readEntries(localStorage)

\* where the book stands in a list that holds it once
PositionOf(list, bookId) == CHOOSE k \in 1..Len(list) : list[k].bookId = bookId

\* the list holds an entry of the book
Holds(list, bookId) == \E k \in 1..Len(list) : list[k].bookId = bookId

\* at most HISTORY_LIMIT entries, one entry per book, the book saved last first
HistoryShape ==
  /\ Len(History) <= HISTORY_LIMIT
  /\ \A j, k \in 1..Len(History) : History[j].bookId = History[k].bookId => j = k
  /\ Len(History) > 0 =>
       /\ History[1].bookId = savedEntry.bookId
       /\ History[1].chapterId = savedEntry.chapterId

\* the place the entry old[k] of another book has after a save of the book
\* that stood at place p (p = 0: the book had no entry): one down in front of
\* p, unchanged behind it
PlaceAfterSave(k, p) == IF p = 0 \/ k < p THEN k + 1 ELSE k

\* a call of saveReadingProgress changed the stored item: the entry of the
\* saved book is the new one and is first, every entry of another book is
\* unchanged and stands one place down, or at its old place when it stood
\* behind the entry replaced, and the entries that are gone are those whose
\* new place would be behind HISTORY_LIMIT
SaveKeepsOthers ==
  (localStorage' # localStorage /\ localStorage'.present) =>
    \A old \in {readEntries(localStorage)}, new \in {readEntries(localStorage')} :
      \A p \in {IF Holds(old, savedEntry'.bookId)
                  THEN PositionOf(old, savedEntry'.bookId) ELSE 0} :
        /\ new[1].bookId = savedEntry'.bookId
        /\ new[1].chapterId = savedEntry'.chapterId
        /\ new[1].updatedAt = dateNow
        /\ \A k \in 1..Len(old) :
             k # p =>
               IF PlaceAfterSave(k, p) <= HISTORY_LIMIT
                 THEN /\ PlaceAfterSave(k, p) <= Len(new)
                      /\ new[PlaceAfterSave(k, p)] = old[k]
                 ELSE Len(new) = HISTORY_LIMIT
        /\ Len(new) <= 1 + Len(old)
        /\ p # 0 => Len(new) = Len(old)

\* C30: the stored history holds at most 20 entries, one per book, the book
\* saved last first; a save replaces the entry of its book, keeps the other
\* entries in their order and drops only the oldest ones beyond the limit
C30_HistoryBounded == []HistoryShape /\ [][SaveKeepsOthers]_vars

\* the twenty-first book has been saved: the history holds the books 21
\* down to 2, the entry of book 1 is gone
C30_OldestEvicted ==
  /\ Len(History) = HISTORY_LIMIT
  /\ \A k \in 1..HISTORY_LIMIT : History[k].bookId = HISTORY_LIMIT + 2 - k

\* book 1 has been saved again from the last place of a full history, at
\* another chapter and a later time: its entry is first, the others follow
\* in their order
ResavedBookFirst ==
  /\ Len(History) = HISTORY_LIMIT
  /\ History[1] = [bookId |-> 1, chapterId |-> 2, updatedAt |-> 1]
  /\ \A k \in 2..HISTORY_LIMIT : History[k].bookId = HISTORY_LIMIT + 2 - k
  /\ History[2].updatedAt = 0

\* the history has been cleared after a save
HistoryCleared ==
  /\ ~localStorage.present
  /\ savedEntry # NoEntry

====
